---------------------------- MODULE Spec2Model ----------------------------
(***************************************************************************)
(* Refractive-index evaluation of the crystal database                    *)
(* (ui-kurodai/202508_crystal_database).                                   *)
(*                                                                         *)
(* The repository holds two versions of the same module:                   *)
(*   src/crystaldatabase/database.py   (LiNbO3, BaMgF4, SiO2, CRYSTALS)     *)
(*   src/database.py                   (LiNbO3, BaMgF4)                     *)
(* Both are modelled; the variable "file" says which one is loaded.        *)
(*                                                                         *)
(* Numbers.  Python floats are modelled in fixed point:                    *)
(*   wavelengths in micron      : 1 unit = 1e-3 um                         *)
(*   squared wavelengths        : 1 unit = 1e-6 um^2                       *)
(*   Sellmeier coefficients, n^2: 1 unit = 1e-6                            *)
(*   refractive indices n       : 1 unit = 1e-4                            *)
(* Products and quotients are truncated to the unit, so an index differs   *)
(* from the float the code computes by at most a few 1e-4.                 *)
(* Near a pole of a Sellmeier term fixed point is not enough: the code     *)
(* divides by the difference of two doubles, which on the pole is 0.0      *)
(* (ZeroDivisionError) or one rounding away from it (a quotient of the     *)
(* order of 1e16).  There the term, and every sum it enters, is computed   *)
(* in IEEE-754 doubles digit by digit, as the code computes it, and the    *)
(* result is held with a decimal exponent.                                 *)
(* So is every term whose difference cancels to less than 2^-10 of its     *)
(* operands: the difference of the doubles is not the exact difference.    *)
(* The same holds where the terms cancel: an n^2 within 1e-3 of 0.0 is     *)
(* computed in doubles, which decide its sign and its square root.         *)
(* Wavelengths are passed in whole nm, which the wavelength unit holds     *)
(* exactly: the range comparison is then the code's, bit for bit.          *)
(*                                                                         *)
(* Strings that the code transforms (crystal_system, through .lower())     *)
(* are sequences of one-character strings; strings that are only compared  *)
(* are TLA+ strings.                                                       *)
(***************************************************************************)
EXTENDS Integers, Sequences, FiniteSets, TLC

VARIABLES file, self, made, last

vars == <<file, self, made, last>>

----------------------------------------------------------------------------
(* Bounds of the explored inputs *)

\* wavelengths are tried up to MaxEps nm outside each end of the valid range
MaxEps == 2

----------------------------------------------------------------------------
(* Fixed-point arithmetic *)

\* 1 um in wavelength units (1e-3 um)
UmUnits == 1000

\* 1.0 in coefficient units (1e-6)
One == UmUnits * UmUnits

Abs(x) == IF x < 0 THEN 0 - x ELSE x

\* <<q, r>> with a*b = q*c + r and 0 <= r < c, for a, b >= 0 and c > 0,
\* computed by doubling so that no intermediate product leaves 32 bits
RECURSIVE MulDivRem(_, _, _)
MulDivRem(a, b, c) ==
    IF a = 0 THEN <<0, 0>>
    ELSE LET h  == MulDivRem(a \div 2, b, c)
             d  == IF h[2] >= c - h[2]
                   THEN <<2 * h[1] + 1, h[2] - (c - h[2])>>
                   ELSE <<2 * h[1], 2 * h[2]>>
             qb == b \div c
             rb == b % c
         IN  IF a % 2 = 0 THEN d
             ELSE IF d[2] >= c - rb
                  THEN <<d[1] + qb + 1, d[2] - (c - rb)>>
                  ELSE <<d[1] + qb, d[2] + rb>>

\* a*b/c truncated toward zero, c # 0
MulDiv(a, b, c) ==
    LET m == IF Abs(a) <= Abs(b)
             THEN MulDivRem(Abs(a), Abs(b), Abs(c))[1]
             ELSE MulDivRem(Abs(b), Abs(a), Abs(c))[1]
        neg == ((a < 0) # (b < 0)) # (c < 0)
    IN  IF neg THEN 0 - m ELSE m

\* floor of the square root of x >= 0, by bisection on lo..hi
RECURSIVE ISqrtIn(_, _, _)
ISqrtIn(x, lo, hi) ==
    IF lo >= hi THEN lo
    ELSE LET mid == (lo + hi + 1) \div 2
         IN  IF mid * mid <= x THEN ISqrtIn(x, mid, hi)
                               ELSE ISqrtIn(x, lo, mid - 1)

ISqrt(x) == ISqrtIn(x, 0, 46340)

----------------------------------------------------------------------------
(* IEEE-754 doubles.  A whole number too long for an integer of the model  *)
(* is the sequence of its digits in base Radix, least significant first    *)
(* and without leading zeros.  A double is [neg, m, e]: the sign, the      *)
(* significand m, a whole number of MantBits binary digits, and the value  *)
(* m * 2^e; 0.0 has the empty significand.  Every operation rounds to      *)
(* nearest, ties to even.                                                  *)

\* binary digits in the significand of a Python float
MantBits == 53

RadixBits == 5 + 5
Radix     == 2 ^ RadixBits

\* digits of n >= 0
RECURSIVE BigOf(_)
BigOf(n) == IF n = 0 THEN <<>> ELSE <<n % Radix>> \o BigOf(n \div Radix)

\* the number a short digit sequence stands for, from digit i down
RECURSIVE NatOfBig(_, _, _)
NatOfBig(a, i, acc) ==
    IF i = 0 THEN acc ELSE NatOfBig(a, i - 1, acc * Radix + a[i])

Zeros(k) == [i \in 1..k |-> 0]

\* a without leading zero digits
BigTrim(a) ==
    IF \A i \in 1..Len(a) : a[i] = 0 THEN <<>>
    ELSE SubSeq(a, 1, CHOOSE i \in 1..Len(a) :
                          a[i] # 0 /\ \A j \in (i + 1)..Len(a) : a[j] = 0)

\* digit i of a, zero past its end
BigDigit(a, i) == IF i \in 1..Len(a) THEN a[i] ELSE 0

\* the digits of the number with cols[i] units of weight Radix^(i-1); a
\* negative cols[i] borrows from the digits above
RECURSIVE BigCarry(_, _, _, _)
BigCarry(cols, i, carry, acc) ==
    IF i > Len(cols)
    THEN IF carry = 0 THEN acc
         ELSE BigCarry(cols, i, carry \div Radix, Append(acc, carry % Radix))
    ELSE BigCarry(cols, i + 1, (cols[i] + carry) \div Radix,
                  Append(acc, (cols[i] + carry) % Radix))

\* a * s for a small s >= 0
BigTimes(a, s) == BigTrim(BigCarry([i \in 1..Len(a) |-> a[i] * s], 1, 0, <<>>))

\* a + 1
BigSucc(a) ==
    BigCarry(IF a = <<>> THEN <<1>> ELSE [a EXCEPT ![1] = @ + 1], 1, 0, <<>>)

\* a + b
BigPlus(a, b) ==
    BigCarry([i \in 1..(IF Len(a) > Len(b) THEN Len(a) ELSE Len(b)) |->
                 BigDigit(a, i) + BigDigit(b, i)], 1, 0, <<>>)

\* a - b, a >= b
BigMinus(a, b) ==
    BigTrim(BigCarry([i \in 1..Len(a) |-> a[i] - BigDigit(b, i)], 1, 0, <<>>))

\* a < b
BigLess(a, b) ==
    \/ Len(a) < Len(b)
    \/ /\ Len(a) = Len(b)
       /\ \E i \in 1..Len(a) :
              a[i] < b[i] /\ \A j \in (i + 1)..Len(a) : a[j] = b[j]

\* sum of the digit products of weight Radix^w in a * b (digit positions
\* counted from 0), over the digits of a from position from
RECURSIVE MulColumn(_, _, _, _)
MulColumn(a, b, w, from) ==
    IF from >= Len(a) THEN 0
    ELSE a[from + 1] * BigDigit(b, w - from + 1) + MulColumn(a, b, w, from + 1)

\* a * b
BigMul(a, b) ==
    BigTrim(BigCarry([i \in 1..(Len(a) + Len(b)) |-> MulColumn(a, b, i - 1, 0)],
                     1, 0, <<>>))

\* <<quotient, remainder>> of a by a small d > 0, from digit i down
RECURSIVE BigDivFrom(_, _, _, _, _)
BigDivFrom(a, d, i, rem, acc) ==
    IF i = 0 THEN <<BigTrim(acc), rem>>
    ELSE BigDivFrom(a, d, i - 1, (rem * Radix + a[i]) % d,
                    <<(rem * Radix + a[i]) \div d>> \o acc)

BigDiv(a, d) == BigDivFrom(a, d, Len(a), 0, <<>>)

\* the largest q in lo..hi with d * q <= r
RECURSIVE QuotDigit(_, _, _, _)
QuotDigit(r, d, lo, hi) ==
    IF lo >= hi THEN lo
    ELSE IF BigLess(r, BigTimes(d, (lo + hi + 1) \div 2))
    THEN QuotDigit(r, d, lo, (lo + hi + 1) \div 2 - 1)
    ELSE QuotDigit(r, d, (lo + hi + 1) \div 2, hi)

\* <<quotient, remainder>> of a by d > 0, both long, from digit i of a down:
\* each step brings digit i down to the remainder so far, and the digit of
\* the quotient is 0 while that is less than d
RECURSIVE BigOverFrom(_, _, _, _, _)
BigOverFrom(a, d, i, rem, acc) ==
    IF i = 0 THEN <<BigTrim(acc), rem>>
    ELSE IF BigLess(BigTrim(<<a[i]>> \o rem), d)
    THEN BigOverFrom(a, d, i - 1, BigTrim(<<a[i]>> \o rem), <<0>> \o acc)
    ELSE BigOverFrom(a, d, i - 1,
                     BigMinus(BigTrim(<<a[i]>> \o rem),
                              BigTimes(d, QuotDigit(BigTrim(<<a[i]>> \o rem),
                                                    d, 1, Radix - 1))),
                     <<QuotDigit(BigTrim(<<a[i]>> \o rem), d, 1, Radix - 1)>>
                         \o acc)

\* <<quotient, remainder>> of a by d, for a of no fewer digits than d > 0:
\* the digits of a above the last Len(a) - Len(d) + 1 are less than d
BigOver(a, d) ==
    BigOverFrom(a, d, Len(a) - Len(d) + 1,
                SubSeq(a, Len(a) - Len(d) + 2, Len(a)), <<>>)

\* binary digits of a small n >= 0
RECURSIVE BitLen(_)
BitLen(n) == IF n = 0 THEN 0 ELSE 1 + BitLen(n \div 2)

\* binary digits of a
BigBitLen(a) ==
    IF a = <<>> THEN 0 ELSE (Len(a) - 1) * RadixBits + BitLen(a[Len(a)])

\* a * 2^k
BigShiftLeft(a, k) ==
    IF a = <<>> THEN <<>>
    ELSE Zeros(k \div RadixBits) \o BigTimes(a, 2 ^ (k % RadixBits))

\* r = <<quotient, remainder>> of a division by a power of two
ShiftedRight(r, lost) == <<r[1], r[2] # 0 \/ lost>>

\* <<a \div 2^k, whether a digit shifted out was non-zero>>
BigShiftRight(a, k) ==
    ShiftedRight(BigDiv(SubSeq(a, k \div RadixBits + 1, Len(a)),
                        2 ^ (k % RadixBits)),
                 \E i \in 1..(k \div RadixBits) : i <= Len(a) /\ a[i] # 0)

\* the whole number r[1] stands for, r the pair of BigOver or BigShiftRight
NatOfQuotient(r) == NatOfBig(r[1], Len(r[1]), 0)

BigOdd(a) == a # <<>> /\ a[1] % 2 = 1

DoubleZero == [neg |-> FALSE, m |-> <<>>, e |-> 0]

IsZero(x) == x.m = <<>>

\* -x
Negated(x) == [neg |-> ~x.neg, m |-> x.m, e |-> x.e]

\* round to nearest, ties to even: down is the significand cut off, half
\* the digit below it, more whether any digit below that was non-zero; a
\* significand rounded up may carry out of the top into one more digit
RoundedTo(neg, down, half, more, e) ==
    IF ~(half /\ (more \/ BigOdd(down)))
    THEN [neg |-> neg, m |-> down, e |-> e]
    ELSE IF BigBitLen(BigSucc(down)) > MantBits
    THEN [neg |-> neg, m |-> BigDiv(BigSucc(down), 2)[1], e |-> e + 1]
    ELSE [neg |-> neg, m |-> BigSucc(down), e |-> e]

\* s = <<the significand and the digit below it, whether digits were cut>>
RoundedFrom(neg, s, sticky, e) ==
    RoundedTo(neg, BigDiv(s[1], 2)[1], BigOdd(s[1]), sticky \/ s[2], e)

\* the double nearest to a * 2^e for a > 0 of len binary digits
RoundedAt(neg, a, len, e, sticky) ==
    IF len <= MantBits
    THEN [neg |-> neg, m |-> BigShiftLeft(a, MantBits - len),
          e |-> e - (MantBits - len)]
    ELSE RoundedFrom(neg, BigShiftRight(a, len - MantBits - 1), sticky,
                     e + (len - MantBits))

\* the double nearest to a * 2^e, negated if neg; sticky says that digits
\* below the last of a were non-zero
RoundDouble(neg, a, e, sticky) ==
    IF a = <<>> THEN [neg |-> neg, m |-> <<>>, e |-> 0]
    ELSE RoundedAt(neg, a, BigBitLen(a), e, sticky)

\* digits appended to a dividend so that the quotient holds more than
\* MantBits binary digits
GuardDigits == (2 * MantBits) \div RadixBits + 1

\* r = <<quotient, remainder>> of BigDiv for a dividend with GuardDigits
\* digits appended
RoundedQuotient(r) ==
    RoundDouble(FALSE, r[1], 0 - GuardDigits * RadixBits, r[2] # 0)

\* the double nearest to p / d, for a long p >= 0 and 0 < d <= 10^6
DoubleOfBigRatio(p, d) == RoundedQuotient(BigDiv(Zeros(GuardDigits) \o p, d))

\* x under the sign neg
Signed(neg, x) == [neg |-> neg, m |-> x.m, e |-> x.e]

\* the double nearest to c / d, for whole c of either sign and
\* 0 < d <= 10^6: the float division c / d of two exactly held numbers, or
\* the literal written c / d
LiteralDouble(c, d) == Signed(c < 0, DoubleOfBigRatio(BigOf(Abs(c)), d))

\* x * y
DoubleTimes(x, y) ==
    RoundDouble(x.neg # y.neg, BigMul(x.m, y.m), x.e + y.e, FALSE)

\* digits appended to a significand so that its quotient by another holds
\* more than MantBits binary digits
OverDigits == MantBits \div RadixBits + 1

\* r = <<quotient, remainder>> of BigOver for a dividend with OverDigits
\* digits appended
RoundedOver(neg, r, e) ==
    RoundDouble(neg, r[1], e - OverDigits * RadixBits, r[2] # <<>>)

\* x / y, y # 0.0
DoubleOver(x, y) ==
    IF IsZero(x) THEN [neg |-> x.neg # y.neg, m |-> <<>>, e |-> 0]
    ELSE RoundedOver(x.neg # y.neg, BigOver(Zeros(OverDigits) \o x.m, y.m),
                     x.e - y.e)

\* a * 2^q + b * 2^q with the signs aneg and bneg: the sum of the
\* magnitudes under a common sign, else their difference under the sign of
\* the larger, and 0.0 when they cancel
PlusAligned(aneg, a, bneg, b, q) ==
    IF aneg # bneg /\ a = b THEN DoubleZero
    ELSE RoundDouble(IF aneg # bneg /\ BigLess(a, b) THEN bneg ELSE aneg,
                     IF aneg = bneg THEN BigPlus(a, b)
                     ELSE IF BigLess(a, b) THEN BigMinus(b, a)
                     ELSE BigMinus(a, b),
                     q, FALSE)

\* x + y for x and y that are not 0.0, q the smaller exponent
PlusAt(x, y, q) ==
    PlusAligned(x.neg, BigShiftLeft(x.m, x.e - q),
                y.neg, BigShiftLeft(y.m, y.e - q), q)

\* x + y; a term more than 2 * MantBits binary digits below the other does
\* not reach the rounding
DoublePlus(x, y) ==
    IF IsZero(x) THEN y
    ELSE IF IsZero(y) THEN x
    ELSE IF x.e - y.e > 2 * MantBits THEN x
    ELSE IF y.e - x.e > 2 * MantBits THEN y
    ELSE PlusAt(x, y, IF x.e < y.e THEN x.e ELSE y.e)

\* x - y
DoubleMinus(x, y) == DoublePlus(x, Negated(y))

\* binary digits between the exponents of two terms beyond which the sum
\* is not aligned: no digit of the lower term then reaches the rounding
FmaReach == 3 * MantBits

\* the double nearest to p * 2^pe + z, for p > 0 under the sign neg and
\* z # 0.0: a z beyond FmaReach below the product acts on the rounding by
\* its sign alone, and a product beyond FmaReach below z not at all
FmaAt(neg, p, pe, z) ==
    IF pe - z.e > FmaReach
    THEN PlusAligned(neg, BigTimes(p, 4), z.neg, <<1>>, pe - 2)
    ELSE IF z.e - pe > FmaReach THEN z
    ELSE PlusAt([neg |-> neg, m |-> p, e |-> pe], z,
                IF pe < z.e THEN pe ELSE z.e)

\* x * y + z rounded once (fused multiply-add)
DoubleFma(x, y, z) ==
    IF IsZero(x) \/ IsZero(y) THEN z
    ELSE IF IsZero(z) THEN DoubleTimes(x, y)
    ELSE FmaAt(x.neg # y.neg, BigMul(x.m, y.m), x.e + y.e, z)

\* the whole number the float x holds, |x| < 2^30
IntOfDouble(x) ==
    IF IsZero(x) THEN 0
    ELSE IF x.neg THEN 0 - NatOfQuotient(BigShiftRight(x.m, 0 - x.e))
    ELSE NatOfQuotient(BigShiftRight(x.m, 0 - x.e))

\* the double d[1] * (d[2] * 2^30 + d[3]) * 2^d[4], for a significand of
\* MantBits binary digits written in two halves
DoubleOfHalves(d) ==
    IF d[2] = 0 /\ d[3] = 0 THEN DoubleZero
    ELSE [neg |-> d[1] < 0,
          m |-> <<d[3] % Radix, (d[3] \div Radix) % Radix,
                  d[3] \div (Radix * Radix)>> \o BigOf(d[2]),
          e |-> d[4]]

----------------------------------------------------------------------------
(* wvl**2 is float.__pow__, the C library's pow(wvl, 2.0), which is not    *)
(* always the correctly rounded square: about one wavelength of whole nm   *)
(* in 1200 gets the double next to it.  pow is computed here as the        *)
(* library the code runs on computes it (glibc 2.36, the variant for       *)
(* processors with fused multiply-add): log(x) as a sum y + tail from a    *)
(* table of 128 intervals and a polynomial, then exp(2 * log(x)) from a    *)
(* table of 2^(j/128) and a polynomial.  The names are the library's; a    *)
(* float of the tables is written as for DoubleOfHalves.                   *)

\* __pow_log_data: log(2) in two parts, the polynomial A[0] to A[6] of
\* log(1 + r) and, for each of the 128 intervals of z, 1/c, log(c) and the
\* rest of log(c) for the centre c of the interval
pow_log_data ==
    [ln2hi |-> <<1, 5814539, 1056585728, 0 - 53>>,
     ln2lo |-> <<1, 8113502, 331835184, 0 - 97>>,
     poly |->
       <<<<0 - 1, 4194304, 0, 0 - 53>>,
         <<0 - 1, 5592405, 357913952, 0 - 53>>,
         <<1, 4194304, 6, 0 - 53>>,
         <<1, 6710886, 425284942, 0 - 53>>,
         <<0 - 1, 5592405, 355050618, 0 - 53>>,
         <<0 - 1, 4793710, 457721321, 0 - 52>>,
         <<1, 4194478, 187056067, 0 - 52>>>>,
     tab |->
       <<<<<<1, 5931008, 0, 0 - 52>>, <<0 - 1, 5812747, 851036160, 0 - 54>>,
           <<1, 7000208, 674715264, 0 - 100>>>>,
         <<<<1, 5898240, 0, 0 - 52>>, <<0 - 1, 5719798, 1062733824, 0 - 54>>,
           <<0 - 1, 7509027, 417396512, 0 - 98>>>>,
         <<<<1, 5865472, 0, 0 - 52>>, <<0 - 1, 5626332, 390420480, 0 - 54>>,
           <<0 - 1, 5081747, 364269677, 0 - 97>>>>,
         <<<<1, 5832704, 0, 0 - 52>>, <<0 - 1, 5532342, 120453120, 0 - 54>>,
           <<0 - 1, 5903250, 514877397, 0 - 101>>>>,
         <<<<1, 5799936, 0, 0 - 52>>, <<0 - 1, 5437822, 360151040, 0 - 54>>,
           <<0 - 1, 5270950, 321470176, 0 - 99>>>>,
         <<<<1, 5767168, 0, 0 - 52>>, <<0 - 1, 5342767, 35414016, 0 - 54>>,
           <<1, 5202109, 139232460, 0 - 98>>>>,
         <<<<1, 5734400, 0, 0 - 52>>, <<0 - 1, 5247170, 109488128, 0 - 54>>,
           <<1, 7408591, 763497274, 0 - 102>>>>,
         <<<<1, 5701632, 0, 0 - 52>>, <<0 - 1, 5151025, 359221248, 0 - 54>>,
           <<1, 4376346, 106009696, 0 - 97>>>>,
         <<<<1, 5668864, 0, 0 - 52>>, <<0 - 1, 5054326, 446201856, 0 - 54>>,
           <<1, 5596471, 348487826, 0 - 97>>>>,
         <<<<1, 5636096, 0, 0 - 52>>, <<0 - 1, 4957066, 987832320, 0 - 54>>,
           <<1, 5893242, 431434712, 0 - 97>>>>,
         <<<<1, 5603328, 0, 0 - 52>>, <<0 - 1, 4859240, 333350912, 0 - 54>>,
           <<1, 5711954, 919580735, 0 - 98>>>>,
         <<<<1, 5603328, 0, 0 - 52>>, <<0 - 1, 4859240, 333350912, 0 - 54>>,
           <<1, 5711954, 919580735, 0 - 98>>>>,
         <<<<1, 5570560, 0, 0 - 52>>, <<0 - 1, 4760839, 1003452416, 0 - 54>>,
           <<0 - 1, 5859472, 676584054, 0 - 98>>>>,
         <<<<1, 5537792, 0, 0 - 52>>, <<0 - 1, 4661859, 23697408, 0 - 54>>,
           <<0 - 1, 8306417, 686248964, 0 - 98>>>>,
         <<<<1, 5505024, 0, 0 - 52>>, <<0 - 1, 4562290, 732669952, 0 - 54>>,
           <<1, 8159000, 864200944, 0 - 98>>>>,
         <<<<1, 5472256, 0, 0 - 52>>, <<0 - 1, 4462127, 967723008, 0 - 54>>,
           <<0 - 1, 5939987, 1023760998, 0 - 97>>>>,
         <<<<1, 5439488, 0, 0 - 52>>, <<0 - 1, 4361363, 577998848, 0 - 54>>,
           <<0 - 1, 7450553, 1056178958, 0 - 99>>>>,
         <<<<1, 5406720, 0, 0 - 52>>, <<0 - 1, 4259990, 347394048, 0 - 54>>,
           <<0 - 1, 4250338, 519318911, 0 - 100>>>>,
         <<<<1, 5406720, 0, 0 - 52>>, <<0 - 1, 4259990, 347394048, 0 - 54>>,
           <<0 - 1, 4250338, 519318911, 0 - 100>>>>,
         <<<<1, 5373952, 0, 0 - 52>>, <<0 - 1, 8316001, 761151488, 0 - 55>>,
           <<1, 7691434, 731462791, 0 - 99>>>>,
         <<<<1, 5341184, 0, 0 - 52>>, <<0 - 1, 8110775, 198991872, 0 - 55>>,
           <<1, 7117534, 478588708, 0 - 97>>>>,
         <<<<1, 5308416, 0, 0 - 52>>, <<0 - 1, 7904285, 774565888, 0 - 55>>,
           <<0 - 1, 6077757, 339738384, 0 - 98>>>>,
         <<<<1, 5275648, 0, 0 - 52>>, <<0 - 1, 7696517, 726646784, 0 - 55>>,
           <<1, 4647494, 1003120667, 0 - 97>>>>,
         <<<<1, 5242880, 0, 0 - 52>>, <<0 - 1, 7487455, 127574016, 0 - 55>>,
           <<1, 6153533, 681542708, 0 - 97>>>>,
         <<<<1, 5242880, 0, 0 - 52>>, <<0 - 1, 7487455, 127574016, 0 - 55>>,
           <<1, 6153533, 681542708, 0 - 97>>>>,
         <<<<1, 5210112, 0, 0 - 52>>, <<0 - 1, 7277081, 875401216, 0 - 55>>,
           <<1, 6634176, 831240079, 0 - 98>>>>,
         <<<<1, 5177344, 0, 0 - 52>>, <<0 - 1, 7065381, 243318784, 0 - 55>>,
           <<1, 6896012, 1070436454, 0 - 104>>>>,
         <<<<1, 5144576, 0, 0 - 52>>, <<0 - 1, 6852336, 534949888, 0 - 55>>,
           <<0 - 1, 5648787, 474399210, 0 - 97>>>>,
         <<<<1, 5144576, 0, 0 - 52>>, <<0 - 1, 6852336, 534949888, 0 - 55>>,
           <<0 - 1, 5648787, 474399210, 0 - 97>>>>,
         <<<<1, 5111808, 0, 0 - 52>>, <<0 - 1, 6637930, 485773312, 0 - 55>>,
           <<0 - 1, 7030628, 79811811, 0 - 97>>>>,
         <<<<1, 5079040, 0, 0 - 52>>, <<0 - 1, 6422145, 622907392, 0 - 55>>,
           <<1, 7272189, 1071381001, 0 - 97>>>>,
         <<<<1, 5046272, 0, 0 - 52>>, <<0 - 1, 6204964, 34660352, 0 - 55>>,
           <<1, 7302721, 844319320, 0 - 97>>>>,
         <<<<1, 5046272, 0, 0 - 52>>, <<0 - 1, 6204964, 34660352, 0 - 55>>,
           <<1, 7302721, 844319320, 0 - 97>>>>,
         <<<<1, 5013504, 0, 0 - 52>>, <<0 - 1, 5986367, 656003072, 0 - 55>>,
           <<0 - 1, 4428202, 598925926, 0 - 98>>>>,
         <<<<1, 4980736, 0, 0 - 52>>, <<0 - 1, 5766337, 816287744, 0 - 55>>,
           <<0 - 1, 8026382, 521162809, 0 - 98>>>>,
         <<<<1, 4980736, 0, 0 - 52>>, <<0 - 1, 5766337, 816287744, 0 - 55>>,
           <<0 - 1, 8026382, 521162809, 0 - 98>>>>,
         <<<<1, 4947968, 0, 0 - 52>>, <<0 - 1, 5544855, 597798912, 0 - 55>>,
           <<0 - 1, 4422190, 268917647, 0 - 97>>>>,
         <<<<1, 4915200, 0, 0 - 52>>, <<0 - 1, 5321901, 751534080, 0 - 55>>,
           <<1, 6042373, 557152316, 0 - 98>>>>,
         <<<<1, 4915200, 0, 0 - 52>>, <<0 - 1, 5321901, 751534080, 0 - 55>>,
           <<1, 6042373, 557152316, 0 - 98>>>>,
         <<<<1, 4882432, 0, 0 - 52>>, <<0 - 1, 5097456, 538873856, 0 - 55>>,
           <<1, 4579865, 220681274, 0 - 100>>>>,
         <<<<1, 4849664, 0, 0 - 52>>, <<0 - 1, 4871499, 941617152, 0 - 55>>,
           <<0 - 1, 5387456, 393331720, 0 - 97>>>>,
         <<<<1, 4816896, 0, 0 - 52>>, <<0 - 1, 4644011, 355426304, 0 - 55>>,
           <<0 - 1, 7996048, 403809174, 0 - 97>>>>,
         <<<<1, 4816896, 0, 0 - 52>>, <<0 - 1, 4644011, 355426304, 0 - 55>>,
           <<0 - 1, 7996048, 403809174, 0 - 97>>>>,
         <<<<1, 4784128, 0, 0 - 52>>, <<0 - 1, 4414969, 1020301312, 0 - 55>>,
           <<1, 6923866, 149445620, 0 - 99>>>>,
         <<<<1, 4784128, 0, 0 - 52>>, <<0 - 1, 4414969, 1020301312, 0 - 55>>,
           <<1, 6923866, 149445620, 0 - 99>>>>,
         <<<<1, 4751360, 0, 0 - 52>>, <<0 - 1, 8368708, 836493312, 0 - 56>>,
           <<0 - 1, 5625169, 480457714, 0 - 97>>>>,
         <<<<1, 4718592, 0, 0 - 52>>, <<0 - 1, 7904285, 774569984, 0 - 56>>,
           <<1, 6869168, 720371772, 0 - 97>>>>,
         <<<<1, 4718592, 0, 0 - 52>>, <<0 - 1, 7904285, 774569984, 0 - 56>>,
           <<1, 6869168, 720371772, 0 - 97>>>>,
         <<<<1, 4685824, 0, 0 - 52>>, <<0 - 1, 7436626, 257671168, 0 - 56>>,
           <<0 - 1, 7614813, 408927750, 0 - 98>>>>,
         <<<<1, 4653056, 0, 0 - 52>>, <<0 - 1, 6965684, 977985536, 0 - 56>>,
           <<1, 5563607, 677096136, 0 - 97>>>>,
         <<<<1, 4653056, 0, 0 - 52>>, <<0 - 1, 6965684, 977985536, 0 - 56>>,
           <<1, 5563607, 677096136, 0 - 97>>>>,
         <<<<1, 4620288, 0, 0 - 52>>, <<0 - 1, 6491415, 372350976, 0 - 56>>,
           <<1, 5107877, 221206120, 0 - 98>>>>,
         <<<<1, 4620288, 0, 0 - 52>>, <<0 - 1, 6491415, 372350976, 0 - 56>>,
           <<1, 5107877, 221206120, 0 - 98>>>>,
         <<<<1, 4587520, 0, 0 - 52>>, <<0 - 1, 6013770, 182804480, 0 - 56>>,
           <<0 - 1, 5922015, 154366938, 0 - 97>>>>,
         <<<<1, 4554752, 0, 0 - 52>>, <<0 - 1, 5532700, 1057366016, 0 - 56>>,
           <<1, 8128877, 566648407, 0 - 98>>>>,
         <<<<1, 4554752, 0, 0 - 52>>, <<0 - 1, 5532700, 1057366016, 0 - 56>>,
           <<1, 8128877, 566648407, 0 - 98>>>>,
         <<<<1, 4521984, 0, 0 - 52>>, <<0 - 1, 5048158, 370925568, 0 - 56>>,
           <<1, 7437163, 217650143, 0 - 97>>>>,
         <<<<1, 4521984, 0, 0 - 52>>, <<0 - 1, 5048158, 370925568, 0 - 56>>,
           <<1, 7437163, 217650143, 0 - 97>>>>,
         <<<<1, 4489216, 0, 0 - 52>>, <<0 - 1, 4560091, 782467072, 0 - 56>>,
           <<1, 5370233, 915383049, 0 - 98>>>>,
         <<<<1, 4456448, 0, 0 - 52>>, <<0 - 1, 8136899, 1146880, 0 - 57>>,
           <<1, 7693946, 53907089, 0 - 97>>>>,
         <<<<1, 4456448, 0, 0 - 52>>, <<0 - 1, 8136899, 1146880, 0 - 57>>,
           <<1, 7693946, 53907089, 0 - 97>>>>,
         <<<<1, 4423680, 0, 0 - 52>>, <<0 - 1, 7146357, 823754752, 0 - 57>>,
           <<1, 7473643, 634810444, 0 - 98>>>>,
         <<<<1, 4423680, 0, 0 - 52>>, <<0 - 1, 7146357, 823754752, 0 - 57>>,
           <<1, 7473643, 634810444, 0 - 98>>>>,
         <<<<1, 4390912, 0, 0 - 52>>, <<0 - 1, 6148451, 909295616, 0 - 57>>,
           <<0 - 1, 7598360, 888316398, 0 - 97>>>>,
         <<<<1, 4390912, 0, 0 - 52>>, <<0 - 1, 6148451, 909295616, 0 - 57>>,
           <<0 - 1, 7598360, 888316398, 0 - 97>>>>,
         <<<<1, 4358144, 0, 0 - 52>>, <<0 - 1, 5143070, 972996608, 0 - 57>>,
           <<1, 5507807, 891748010, 0 - 100>>>>,
         <<<<1, 4358144, 0, 0 - 52>>, <<0 - 1, 5143070, 972996608, 0 - 57>>,
           <<1, 5507807, 891748010, 0 - 100>>>>,
         <<<<1, 4325376, 0, 0 - 52>>, <<0 - 1, 8260204, 242745344, 0 - 58>>,
           <<0 - 1, 6684825, 1014893028, 0 - 97>>>>,
         <<<<1, 4325376, 0, 0 - 52>>, <<0 - 1, 8260204, 242745344, 0 - 58>>,
           <<0 - 1, 6684825, 1014893028, 0 - 97>>>>,
         <<<<1, 4292608, 0, 0 - 52>>, <<0 - 1, 6218860, 131432448, 0 - 58>>,
           <<0 - 1, 6436178, 335193657, 0 - 97>>>>,
         <<<<1, 4259840, 0, 0 - 52>>, <<0 - 1, 8323746, 821821440, 0 - 59>>,
           <<0 - 1, 8157683, 919840412, 0 - 102>>>>,
         <<<<1, 4259840, 0, 0 - 52>>, <<0 - 1, 8323746, 821821440, 0 - 59>>,
           <<0 - 1, 8157683, 919840412, 0 - 102>>>>,
         <<<<1, 4227072, 0, 0 - 52>>, <<0 - 1, 8356009, 722468864, 0 - 60>>,
           <<0 - 1, 6785276, 232407268, 0 - 98>>>>,
         <<<<1, 4227072, 0, 0 - 52>>, <<0 - 1, 8356009, 722468864, 0 - 60>>,
           <<0 - 1, 6785276, 232407268, 0 - 98>>>>,
         <<<<1, 4194304, 0, 0 - 52>>, <<1, 0, 0, 0>>,
           <<1, 0, 0, 0>>>>,
         <<<<1, 4194304, 0, 0 - 52>>, <<1, 0, 0, 0>>,
           <<1, 0, 0, 0>>>>,
         <<<<1, 8323072, 0, 0 - 53>>, <<1, 4210773, 898170880, 0 - 59>>,
           <<0 - 1, 4398510, 429730792, 0 - 98>>>>,
         <<<<1, 8257536, 0, 0 - 53>>, <<1, 4227417, 412319744, 0 - 58>>,
           <<0 - 1, 5206380, 115537874, 0 - 97>>>>,
         <<<<1, 8192000, 0, 0 - 53>>, <<1, 6366356, 684261376, 0 - 58>>,
           <<0 - 1, 6980328, 844762164, 0 - 97>>>>,
         <<<<1, 8126464, 0, 0 - 53>>, <<1, 4261238, 166150144, 0 - 57>>,
           <<1, 4474625, 485611347, 0 - 99>>>>,
         <<<<1, 8060928, 0, 0 - 53>>, <<1, 5348027, 338558976, 0 - 57>>,
           <<0 - 1, 7363021, 901643560, 0 - 97>>>>,
         <<<<1, 7995392, 0, 0 - 53>>, <<1, 6443688, 346013696, 0 - 57>>,
           <<0 - 1, 6678103, 274343549, 0 - 98>>>>,
         <<<<1, 7929856, 0, 0 - 53>>, <<1, 7548367, 232636416, 0 - 57>>,
           <<0 - 1, 6923209, 131606535, 0 - 98>>>>,
         <<<<1, 7897088, 0, 0 - 53>>, <<1, 8104135, 442368, 0 - 57>>,
           <<0 - 1, 7881977, 264846203, 0 - 99>>>>,
         <<<<1, 7831552, 0, 0 - 53>>, <<1, 4611311, 289824768, 0 - 56>>,
           <<0 - 1, 5556597, 369991323, 0 - 97>>>>,
         <<<<1, 7766016, 0, 0 - 53>>, <<1, 5175254, 668065792, 0 - 56>>,
           <<1, 7545210, 635129559, 0 - 97>>>>,
         <<<<1, 7700480, 0, 0 - 53>>, <<1, 5743977, 228040704, 0 - 56>>,
           <<0 - 1, 7447576, 1012735262, 0 - 97>>>>,
         <<<<1, 7667712, 0, 0 - 53>>, <<1, 6030156, 183156736, 0 - 56>>,
           <<1, 7371318, 698215730, 0 - 101>>>>,
         <<<<1, 7602176, 0, 0 - 53>>, <<1, 6606201, 492388352, 0 - 56>>,
           <<1, 4998512, 985483226, 0 - 97>>>>,
         <<<<1, 7536640, 0, 0 - 53>>, <<1, 7187234, 229466112, 0 - 56>>,
           <<0 - 1, 5128704, 737634533, 0 - 98>>>>,
         <<<<1, 7503872, 0, 0 - 53>>, <<1, 7479648, 29114368, 0 - 56>>,
           <<1, 5839687, 106605779, 0 - 97>>>>,
         <<<<1, 7438336, 0, 0 - 53>>, <<1, 8068326, 50995200, 0 - 56>>,
           <<0 - 1, 7799202, 803620320, 0 - 97>>>>,
         <<<<1, 7405568, 0, 0 - 53>>, <<1, 8364612, 970711040, 0 - 56>>,
           <<0 - 1, 5559129, 262212349, 0 - 97>>>>,
         <<<<1, 7340032, 0, 0 - 53>>, <<1, 4480570, 36167680, 0 - 55>>,
           <<1, 4701667, 237832178, 0 - 97>>>>,
         <<<<1, 7307264, 0, 0 - 53>>, <<1, 4630701, 1042542592, 0 - 55>>,
           <<1, 7511609, 70818100, 0 - 97>>>>,
         <<<<1, 7241728, 0, 0 - 53>>, <<1, 4932996, 210141184, 0 - 55>>,
           <<1, 5141939, 193049761, 0 - 99>>>>,
         <<<<1, 7208960, 0, 0 - 53>>, <<1, 5085170, 806719488, 0 - 55>>,
           <<1, 5815968, 592147081, 0 - 103>>>>,
         <<<<1, 7143424, 0, 0 - 53>>, <<1, 5391606, 53719040, 0 - 55>>,
           <<1, 5639653, 352171640, 0 - 97>>>>,
         <<<<1, 7110656, 0, 0 - 53>>, <<1, 5545879, 614576128, 0 - 55>>,
           <<1, 5820323, 627670471, 0 - 97>>>>,
         <<<<1, 7045120, 0, 0 - 53>>, <<1, 5856570, 1049366528, 0 - 55>>,
           <<1, 6766124, 742141560, 0 - 98>>>>,
         <<<<1, 7012352, 0, 0 - 53>>, <<1, 6013002, 192245760, 0 - 55>>,
           <<0 - 1, 5522999, 630989281, 0 - 97>>>>,
         <<<<1, 6979584, 0, 0 - 53>>, <<1, 6170166, 88363008, 0 - 55>>,
           <<0 - 1, 7444545, 814826245, 0 - 98>>>>,
         <<<<1, 6914048, 0, 0 - 53>>, <<1, 6486719, 725155840, 0 - 55>>,
           <<0 - 1, 6092114, 719924433, 0 - 99>>>>,
         <<<<1, 6881280, 0, 0 - 53>>, <<1, 6646123, 485949440, 0 - 55>>,
           <<1, 6277281, 413204335, 0 - 99>>>>,
         <<<<1, 6815744, 0, 0 - 53>>, <<1, 6967220, 1015734272, 0 - 55>>,
           <<0 - 1, 6408461, 274080105, 0 - 97>>>>,
         <<<<1, 6782976, 0, 0 - 53>>, <<1, 7128929, 391892992, 0 - 55>>,
           <<0 - 1, 7394869, 246210986, 0 - 99>>>>,
         <<<<1, 6750208, 0, 0 - 53>>, <<1, 7291420, 943448064, 0 - 55>>,
           <<0 - 1, 7679761, 424940214, 0 - 97>>>>,
         <<<<1, 6717440, 0, 0 - 53>>, <<1, 7454703, 116396032, 0 - 55>>,
           <<0 - 1, 4698571, 93727698, 0 - 100>>>>,
         <<<<1, 6651904, 0, 0 - 53>>, <<1, 7783670, 819236864, 0 - 55>>,
           <<0 - 1, 7077035, 924168245, 0 - 97>>>>,
         <<<<1, 6619136, 0, 0 - 53>>, <<1, 7949371, 1072107520, 0 - 55>>,
           <<1, 4737181, 541193264, 0 - 103>>>>,
         <<<<1, 6586368, 0, 0 - 53>>, <<1, 8115895, 618463232, 0 - 55>>,
           <<0 - 1, 6849621, 633048593, 0 - 103>>>>,
         <<<<1, 6553600, 0, 0 - 53>>, <<1, 8283249, 749973504, 0 - 55>>,
           <<1, 7286707, 168615728, 0 - 98>>>>,
         <<<<1, 6488064, 0, 0 - 53>>, <<1, 4310241, 541939712, 0 - 54>>,
           <<1, 6452076, 384650897, 0 - 100>>>>,
         <<<<1, 6455296, 0, 0 - 53>>, <<1, 4395189, 660692992, 0 - 54>>,
           <<1, 6054444, 373091049, 0 - 97>>>>,
         <<<<1, 6422528, 0, 0 - 53>>, <<1, 4480570, 36169728, 0 - 54>>,
           <<0 - 1, 7373881, 598077468, 0 - 97>>>>,
         <<<<1, 6389760, 0, 0 - 53>>, <<1, 4566387, 195885056, 0 - 54>>,
           <<1, 7236407, 933566081, 0 - 97>>>>,
         <<<<1, 6356992, 0, 0 - 53>>, <<1, 4652645, 593127424, 0 - 54>>,
           <<1, 7510965, 289914295, 0 - 97>>>>,
         <<<<1, 6324224, 0, 0 - 53>>, <<1, 4739349, 755939328, 0 - 54>>,
           <<1, 6954874, 977713898, 0 - 99>>>>,
         <<<<1, 6258688, 0, 0 - 53>>, <<1, 4914113, 1021087744, 0 - 54>>,
           <<1, 6976489, 173016308, 0 - 97>>>>,
         <<<<1, 6225920, 0, 0 - 53>>, <<1, 5002183, 567500800, 0 - 54>>,
           <<0 - 1, 6523371, 320945336, 0 - 97>>>>,
         <<<<1, 6193152, 0, 0 - 53>>, <<1, 5090717, 918425600, 0 - 54>>,
           <<1, 4569910, 821131208, 0 - 98>>>>,
         <<<<1, 6160384, 0, 0 - 53>>, <<1, 5179721, 926101504, 0 - 54>>,
           <<1, 6352210, 906411356, 0 - 98>>>>,
         <<<<1, 6127616, 0, 0 - 53>>, <<1, 5269200, 601221120, 0 - 54>>,
           <<1, 6525147, 747692189, 0 - 99>>>>,
         <<<<1, 6094848, 0, 0 - 53>>, <<1, 5359159, 41011200, 0 - 54>>,
           <<0 - 1, 8167224, 157800053, 0 - 97>>>>,
         <<<<1, 6062080, 0, 0 - 53>>, <<1, 5449602, 504836096, 0 - 54>>,
           <<0 - 1, 7897636, 453695652, 0 - 97>>>>,
         <<<<1, 6029312, 0, 0 - 53>>, <<1, 5540536, 121151488, 0 - 54>>,
           <<1, 8059330, 23381849, 0 - 97>>>>,
         <<<<1, 5996544, 0, 0 - 53>>, <<1, 5631965, 331927552, 0 - 54>>,
           <<1, 8304567, 777863407, 0 - 98>>>>,
         <<<<1, 5963776, 0, 0 - 53>>, <<1, 5723895, 525950976, 0 - 54>>,
           <<0 - 1, 6827176, 144991708, 0 - 99>>>>>>]

\* __exp_data: N / log(2) for N = 128, the float 1.5 * 2^52, -log(2) / N in
\* two parts, the polynomial C2 to C5 of exp(r) and, for j in 0..127, the
\* float nearest 2^(j/N) after the rest of 2^(j/N) it leaves
exp_data ==
    [invln2N |-> <<1, 6051101, 623608574, 0 - 45>>,
     shift |-> <<1, 6291456, 0, 0>>,
     negln2hiN |-> <<0 - 1, 5814539, 1056571392, 0 - 60>>,
     negln2loN |-> <<0 - 1, 7593578, 1017002810, 0 - 99>>,
     poly |->
       <<<<1, 8388607, 1073741245, 0 - 54>>,
         <<1, 5592405, 357913660, 0 - 55>>,
         <<1, 5592407, 253176721, 0 - 57>>,
         <<1, 4473925, 665112599, 0 - 59>>>>,
     tab |->
       <<<<<<1, 0, 0, 0>>,
           <<1, 4194304, 0, 0 - 52>>>>,
         <<<<1, 7138620, 445169518, 0 - 106>>,
           <<1, 4217078, 704328501, 0 - 52>>>>,
         <<<<0 - 1, 4554830, 483974237, 0 - 108>>,
           <<1, 4239976, 1048019041, 0 - 52>>>>,
         <<<<0 - 1, 4291048, 277309137, 0 - 106>>,
           <<1, 4262999, 678330245, 0 - 52>>>>,
         <<<<1, 7555400, 896005651, 0 - 107>>,
           <<1, 4286147, 320177524, 0 - 52>>>>,
         <<<<0 - 1, 7289344, 603557626, 0 - 107>>,
           <<1, 4309420, 702412510, 0 - 52>>>>,
         <<<<1, 4447545, 568772705, 0 - 109>>,
           <<1, 4332820, 410360776, 0 - 52>>>>,
         <<<<1, 4362129, 456381337, 0 - 106>>,
           <<1, 4356347, 180810627, 0 - 52>>>>,
         <<<<1, 6187673, 495156077, 0 - 106>>,
           <<1, 4380001, 754551055, 0 - 52>>>>,
         <<<<1, 8049770, 318631932, 0 - 107>>,
           <<1, 4403784, 728909815, 0 - 52>>>>,
         <<<<1, 8059125, 808426705, 0 - 112>>,
           <<1, 4427696, 852742562, 0 - 52>>>>,
         <<<<0 - 1, 6819026, 160460299, 0 - 109>>,
           <<1, 4451738, 805229339, 0 - 52>>>>,
         <<<<0 - 1, 5593416, 707771662, 0 - 106>>,
           <<1, 4475911, 269638481, 0 - 52>>>>,
         <<<<0 - 1, 4326334, 206498389, 0 - 110>>,
           <<1, 4500215, 7090636, 0 - 52>>>>,
         <<<<0 - 1, 4662414, 970322966, 0 - 106>>,
           <<1, 4524650, 782839264, 0 - 52>>>>,
         <<<<1, 4411279, 693917103, 0 - 107>>,
           <<1, 4549219, 145067601, 0 - 52>>>>,
         <<<<0 - 1, 4222039, 715494216, 0 - 107>>,
           <<1, 4573920, 1014845819, 0 - 52>>>>,
         <<<<0 - 1, 8159169, 366883389, 0 - 107>>,
           <<1, 4598756, 948735466, 0 - 52>>>>,
         <<<<1, 7218736, 1058231231, 0 - 107>>,
           <<1, 4623727, 728746869, 0 - 52>>>>,
         <<<<0 - 1, 5990001, 907143974, 0 - 106>>,
           <<1, 4648834, 67394772, 0 - 52>>>>,
         <<<<1, 7058396, 1044000608, 0 - 106>>,
           <<1, 4674076, 828946858, 0 - 52>>>>,
         <<<<0 - 1, 8363531, 193345693, 0 - 107>>,
           <<1, 4699456, 586995997, 0 - 52>>>>,
         <<<<1, 6929669, 78037901, 0 - 107>>,
           <<1, 4724974, 140676310, 0 - 52>>>>,
         <<<<1, 4319254, 820249725, 0 - 107>>,
           <<1, 4750630, 293461142, 0 - 52>>>>,
         <<<<1, 5913591, 598255764, 0 - 106>>,
           <<1, 4776425, 779444792, 0 - 52>>>>,
         <<<<1, 6125667, 846481533, 0 - 107>>,
           <<1, 4802361, 263366207, 0 - 52>>>>,
         <<<<1, 4267182, 404744178, 0 - 107>>,
           <<1, 4828437, 635600093, 0 - 52>>>>,
         <<<<0 - 1, 5956076, 1064372318, 0 - 106>>,
           <<1, 4854655, 569729921, 0 - 52>>>>,
         <<<<1, 4972421, 755608369, 0 - 107>>,
           <<1, 4881015, 891281121, 0 - 52>>>>,
         <<<<0 - 1, 7636588, 443531258, 0 - 112>>,
           <<1, 4907519, 282778000, 0 - 52>>>>,
         <<<<1, 7134729, 839649972, 0 - 107>>,
           <<1, 4934166, 652477195, 0 - 52>>>>,
         <<<<1, 7885386, 164547471, 0 - 109>>,
           <<1, 4960958, 691941206, 0 - 52>>>>,
         <<<<1, 5060053, 229682102, 0 - 107>>,
           <<1, 4987896, 171030293, 0 - 52>>>>,
         <<<<1, 5834759, 581727308, 0 - 107>>,
           <<1, 5014979, 1011669041, 0 - 52>>>>,
         <<<<1, 8352997, 500430922, 0 - 107>>,
           <<1, 5042210, 845420287, 0 - 52>>>>,
         <<<<0 - 1, 5934592, 999185156, 0 - 107>>,
           <<1, 5069589, 529702897, 0 - 52>>>>,
         <<<<0 - 1, 4795319, 206262376, 0 - 106>>,
           <<1, 5097116, 926591435, 0 - 52>>>>,
         <<<<0 - 1, 6561760, 458304910, 0 - 106>>,
           <<1, 5124793, 755357798, 0 - 52>>>>,
         <<<<0 - 1, 4671392, 1049900754, 0 - 108>>,
           <<1, 5152620, 887463927, 0 - 52>>>>,
         <<<<0 - 1, 6579302, 869145365, 0 - 106>>,
           <<1, 5180599, 51620069, 0 - 52>>>>,
         <<<<1, 5668130, 657083501, 0 - 107>>,
           <<1, 5208729, 202519586, 0 - 52>>>>,
         <<<<0 - 1, 4999553, 975726986, 0 - 106>>,
           <<1, 5237012, 78413852, 0 - 52>>>>,
         <<<<0 - 1, 6463037, 135760219, 0 - 110>>,
           <<1, 5265448, 569847338, 0 - 52>>>>,
         <<<<0 - 1, 7385709, 659135003, 0 - 108>>,
           <<1, 5294039, 424716439, 0 - 52>>>>,
         <<<<1, 5083061, 549628945, 0 - 111>>,
           <<1, 5322785, 543263021, 0 - 52>>>>,
         <<<<1, 5871652, 990274799, 0 - 106>>,
           <<1, 5351687, 756875351, 0 - 52>>>>,
         <<<<1, 8074119, 446759801, 0 - 109>>,
           <<1, 5380746, 901856464, 0 - 52>>>>,
         <<<<1, 5242424, 1057952304, 0 - 106>>,
           <<1, 5409963, 819450846, 0 - 52>>>>,
         <<<<1, 5915450, 997896112, 0 - 108>>,
           <<1, 5439339, 355871271, 0 - 52>>>>,
         <<<<1, 5011191, 726982775, 0 - 106>>,
           <<1, 5468874, 436067597, 0 - 52>>>>,
         <<<<0 - 1, 8278224, 7447438, 0 - 107>>,
           <<1, 5498569, 916270247, 0 - 52>>>>,
         <<<<0 - 1, 6257459, 479437641, 0 - 107>>,
           <<1, 5528426, 584017474, 0 - 52>>>>,
         <<<<0 - 1, 6519578, 1024407647, 0 - 108>>,
           <<1, 5558445, 379408258, 0 - 52>>>>,
         <<<<0 - 1, 5785883, 746282230, 0 - 107>>,
           <<1, 5588627, 173904399, 0 - 52>>>>,
         <<<<1, 5035028, 419288974, 0 - 106>>,
           <<1, 5618972, 917841882, 0 - 52>>>>,
         <<<<1, 7234268, 797612805, 0 - 108>>,
           <<1, 5649483, 345491453, 0 - 52>>>>,
         <<<<1, 4296583, 572281865, 0 - 106>>,
           <<1, 5680159, 491279401, 0 - 52>>>>,
         <<<<1, 5447189, 270124778, 0 - 112>>,
           <<1, 5711002, 173622967, 0 - 52>>>>,
         <<<<1, 5295000, 728023093, 0 - 106>>,
           <<1, 5742012, 363667784, 0 - 52>>>>,
         <<<<0 - 1, 7573801, 563705503, 0 - 107>>,
           <<1, 5773190, 964090889, 0 - 52>>>>,
         <<<<0 - 1, 7393044, 1005538728, 0 - 107>>,
           <<1, 5804538, 809129349, 0 - 52>>>>,
         <<<<0 - 1, 5328354, 153872814, 0 - 107>>,
           <<1, 5836056, 885834528, 0 - 52>>>>,
         <<<<0 - 1, 5192565, 945182808, 0 - 106>>,
           <<1, 5867746, 39133733, 0 - 52>>>>,
         <<<<1, 6046378, 8264036, 0 - 110>>,
           <<1, 5899607, 340568435, 0 - 52>>>>,
         <<<<0 - 1, 5164990, 1063133736, 0 - 106>>,
           <<1, 5931641, 645872589, 0 - 52>>>>,
         <<<<0 - 1, 6834870, 120895874, 0 - 109>>,
           <<1, 5963849, 889969343, 0 - 52>>>>,
         <<<<0 - 1, 5087166, 946711022, 0 - 109>>,
           <<1, 5996232, 1013258799, 0 - 52>>>>,
         <<<<0 - 1, 4419829, 350259281, 0 - 107>>,
           <<1, 6028791, 961647748, 0 - 52>>>>,
         <<<<0 - 1, 6323601, 1046101711, 0 - 108>>,
           <<1, 6061527, 686579572, 0 - 52>>>>,
         <<<<0 - 1, 6011179, 9141680, 0 - 107>>,
           <<1, 6094441, 145064308, 0 - 52>>>>,
         <<<<0 - 1, 5792968, 508946058, 0 - 107>>,
           <<1, 6127533, 373450697, 0 - 52>>>>,
         <<<<1, 4354861, 503960787, 0 - 106>>,
           <<1, 6160805, 266231103, 0 - 52>>>>,
         <<<<0 - 1, 7129970, 961389853, 0 - 108>>,
           <<1, 6194257, 871039367, 0 - 52>>>>,
         <<<<1, 5485557, 342343787, 0 - 106>>,
           <<1, 6227892, 19972402, 0 - 52>>>>,
         <<<<1, 5746566, 735472725, 0 - 109>>,
           <<1, 6261708, 919555682, 0 - 52>>>>,
         <<<<0 - 1, 6457108, 800313154, 0 - 107>>,
           <<1, 6295709, 339614226, 0 - 52>>>>,
         <<<<0 - 1, 5088987, 825964340, 0 - 106>>,
           <<1, 6329894, 424463891, 0 - 52>>>>,
         <<<<0 - 1, 4291088, 974782238, 0 - 107>>,
           <<1, 6364265, 103008173, 0 - 52>>>>,
         <<<<0 - 1, 5460291, 410146670, 0 - 106>>,
           <<1, 6398822, 457478893, 0 - 52>>>>,
         <<<<1, 4371869, 453937664, 0 - 106>>,
           <<1, 6433567, 428500633, 0 - 52>>>>,
         <<<<1, 7789759, 32565940, 0 - 107>>,
           <<1, 6468501, 36348123, 0 - 52>>>>,
         <<<<0 - 1, 5691778, 482732031, 0 - 109>>,
           <<1, 6503624, 380978316, 0 - 52>>>>,
         <<<<1, 7330317, 435380036, 0 - 108>>,
           <<1, 6538938, 420837174, 0 - 52>>>>,
         <<<<0 - 1, 4990078, 656293251, 0 - 106>>,
           <<1, 6574444, 194117574, 0 - 52>>>>,
         <<<<0 - 1, 7775970, 191634985, 0 - 110>>,
           <<1, 6610142, 818791909, 0 - 52>>>>,
         <<<<0 - 1, 7376869, 1016117593, 0 - 109>>,
           <<1, 6646035, 197677583, 0 - 52>>>>,
         <<<<0 - 1, 4787468, 586480042, 0 - 106>>,
           <<1, 6682122, 534662736, 0 - 52>>>>,
         <<<<0 - 1, 5712307, 392597067, 0 - 107>>,
           <<1, 6718405, 818546618, 0 - 52>>>>,
         <<<<1, 4636656, 730975783, 0 - 108>>,
           <<1, 6754886, 44298384, 0 - 52>>>>,
         <<<<1, 7817431, 554333115, 0 - 109>>,
           <<1, 6791564, 434316067, 0 - 52>>>>,
         <<<<0 - 1, 6231056, 576856675, 0 - 107>>,
           <<1, 6828441, 996009317, 0 - 52>>>>,
         <<<<1, 7107099, 602026453, 0 - 107>>,
           <<1, 6865519, 743058739, 0 - 52>>>>,
         <<<<0 - 1, 4648775, 331135765, 0 - 106>>,
           <<1, 6902798, 842933597, 0 - 52>>>>,
         <<<<1, 4403398, 485372370, 0 - 106>>,
           <<1, 6940280, 321958744, 0 - 52>>>>,
         <<<<1, 5350929, 779311795, 0 - 107>>,
           <<1, 6977965, 360316351, 0 - 52>>>>,
         <<<<0 - 1, 4947766, 395222452, 0 - 107>>,
           <<1, 7015854, 1070855034, 0 - 52>>>>,
         <<<<1, 7367134, 315306887, 0 - 107>>,
           <<1, 7053950, 425382829, 0 - 52>>>>,
         <<<<0 - 1, 4320829, 181524986, 0 - 106>>,
           <<1, 7092252, 697153126, 0 - 52>>>>,
         <<<<0 - 1, 5705573, 383561402, 0 - 110>>,
           <<1, 7130762, 944707067, 0 - 52>>>>,
         <<<<0 - 1, 4362296, 1034352192, 0 - 106>>,
           <<1, 7169482, 233134394, 0 - 52>>>>,
         <<<<0 - 1, 6511568, 950899508, 0 - 109>>,
           <<1, 7208411, 855334471, 0 - 52>>>>,
         <<<<0 - 1, 4701065, 727222837, 0 - 106>>,
           <<1, 7247552, 815859274, 0 - 52>>>>,
         <<<<1, 5504860, 174054861, 0 - 108>>,
           <<1, 7286906, 273400274, 0 - 52>>>>,
         <<<<0 - 1, 4650991, 982685868, 0 - 106>>,
           <<1, 7326473, 467082761, 0 - 52>>>>,
         <<<<1, 5094072, 816778419, 0 - 108>>,
           <<1, 7366255, 495276700, 0 - 52>>>>,
         <<<<1, 8096969, 480247188, 0 - 107>>,
           <<1, 7406253, 536858746, 0 - 52>>>>,
         <<<<1, 5472831, 285825452, 0 - 107>>,
           <<1, 7446468, 777507147, 0 - 52>>>>,
         <<<<1, 5191356, 944642663, 0 - 109>>,
           <<1, 7486902, 335996853, 0 - 52>>>>,
         <<<<1, 6139057, 747772264, 0 - 109>>,
           <<1, 7527555, 485462121, 0 - 52>>>>,
         <<<<0 - 1, 4335714, 63747538, 0 - 107>>,
           <<1, 7568429, 358466554, 0 - 52>>>>,
         <<<<0 - 1, 8303988, 1073740399, 0 - 107>>,
           <<1, 7609525, 168266108, 0 - 52>>>>,
         <<<<0 - 1, 4208312, 947235145, 0 - 106>>,
           <<1, 7650844, 135105010, 0 - 52>>>>,
         <<<<1, 5410326, 641533863, 0 - 108>>,
           <<1, 7692387, 486253703, 0 - 52>>>>,
         <<<<0 - 1, 4867704, 541073935, 0 - 107>>,
           <<1, 7734156, 382305176, 0 - 52>>>>,
         <<<<1, 7956803, 365007532, 0 - 107>>,
           <<1, 7776152, 64696965, 0 - 52>>>>,
         <<<<1, 5302630, 738290507, 0 - 107>>,
           <<1, 7818375, 855749728, 0 - 52>>>>,
         <<<<0 - 1, 4936836, 129252895, 0 - 107>>,
           <<1, 7860828, 863738719, 0 - 52>>>>,
         <<<<0 - 1, 6597348, 994512329, 0 - 107>>,
           <<1, 7903512, 351641897, 0 - 52>>>>,
         <<<<1, 5429265, 540707027, 0 - 108>>,
           <<1, 7946427, 663437302, 0 - 52>>>>,
         <<<<1, 5183409, 295531121, 0 - 107>>,
           <<1, 7989575, 1002916995, 0 - 52>>>>,
         <<<<0 - 1, 8379466, 265523696, 0 - 107>>,
           <<1, 8032958, 581210330, 0 - 52>>>>,
         <<<<0 - 1, 7780963, 572748925, 0 - 107>>,
           <<1, 8076576, 764307441, 0 - 52>>>>,
         <<<<1, 8064753, 27926536, 0 - 107>>,
           <<1, 8120431, 778132007, 0 - 52>>>>,
         <<<<1, 5287507, 61467442, 0 - 107>>,
           <<1, 8164524, 929806999, 0 - 52>>>>,
         <<<<1, 6918820, 835814894, 0 - 107>>,
           <<1, 8208857, 460211520, 0 - 52>>>>,
         <<<<0 - 1, 7921387, 607904749, 0 - 107>>,
           <<1, 8253430, 765246996, 0 - 52>>>>,
         <<<<1, 6169837, 227659165, 0 - 108>>,
           <<1, 8298246, 27168984, 0 - 52>>>>,
         <<<<1, 4986629, 23121033, 0 - 110>>,
           <<1, 8343304, 730821105, 0 - 52>>>>>>]

\* the fraction digits of OFF = 0x3fe6955500000000, the float near 0.706
\* at which the first interval starts
Off == BigShiftLeft(BigOf(431445), 32)

\* x = 2^k * z with z in [0.706, 1.412), for top the digits of tmp = ix - OFF
\* from digit 45 up (x without its exponent): z, k as a float, and the
\* interval i of z
log_z(x, top) ==
    [z |-> [neg |-> FALSE, m |-> x.m, e |-> 1 - MantBits - top \div 128],
     kd |-> LiteralDouble(x.e + MantBits - 1 + top \div 128, 1),
     i |-> top % 128]

\* r = z / c - 1 and k * Ln2 + log(c) = t1 + lo1, for c the centre of
\* interval i
log_r(s) ==
    [r |-> DoubleFma(s.z, DoubleOfHalves(pow_log_data.tab[s.i + 1][1]),
                     LiteralDouble(0 - 1, 1)),
     t1 |-> DoubleFma(s.kd, DoubleOfHalves(pow_log_data.ln2hi),
                      DoubleOfHalves(pow_log_data.tab[s.i + 1][2])),
     lo1 |-> DoubleFma(s.kd, DoubleOfHalves(pow_log_data.ln2lo),
                       DoubleOfHalves(pow_log_data.tab[s.i + 1][3]))]

\* ar = A[0] * r, t2 = t1 + r and the inner sums of the polynomial
log_ar(s, A) ==
    [r |-> s.r, t1 |-> s.t1, lo1 |-> s.lo1,
     ar |-> DoubleTimes(s.r, A[1]),
     t2 |-> DoublePlus(s.r, s.t1),
     p12 |-> DoubleFma(s.r, A[3], A[2]),
     p34 |-> DoubleFma(s.r, A[5], A[4]),
     p56 |-> DoubleFma(s.r, A[7], A[6])]

\* ar2 = r * ar; lo2 is what t2 lost
log_ar2(s) ==
    [r |-> s.r, lo1 |-> s.lo1, ar |-> s.ar, t2 |-> s.t2,
     p12 |-> s.p12, p34 |-> s.p34, p56 |-> s.p56,
     ar2 |-> DoubleTimes(s.r, s.ar),
     lo2 |-> DoublePlus(DoubleMinus(s.t1, s.t2), s.r)]

\* hi = t2 + ar2; lo3 is what ar2 lost; ar3 = r * ar2
log_hi(s) ==
    [lo1 |-> s.lo1, lo2 |-> s.lo2, t2 |-> s.t2, ar2 |-> s.ar2,
     p12 |-> s.p12,
     ar3 |-> DoubleTimes(s.r, s.ar2),
     lo3 |-> DoubleFma(s.ar, s.r, Negated(s.ar2)),
     hi |-> DoublePlus(s.t2, s.ar2),
     p |-> DoubleFma(s.p56, s.ar2, s.p34)]

\* lo4 is what hi lost; p is the polynomial
log_p(s) ==
    [hi |-> s.hi, ar3 |-> s.ar3,
     lo123 |-> DoublePlus(DoublePlus(s.lo1, s.lo2), s.lo3),
     lo4 |-> DoublePlus(DoubleMinus(s.t2, s.hi), s.ar2),
     p |-> DoubleFma(s.ar2, s.p, s.p12)]

\* lo = lo1 + lo2 + lo3 + lo4 + ar3 * p
log_lo(s) ==
    [hi |-> s.hi,
     lo |-> DoubleFma(s.ar3, s.p, DoublePlus(s.lo123, s.lo4))]

\* log(x) = y + tail: y = hi + lo, and tail is what y lost
log_y(s) ==
    [y |-> DoublePlus(s.hi, s.lo),
     tail |-> DoublePlus(DoubleMinus(s.hi, DoublePlus(s.hi, s.lo)), s.lo)]

\* log_inline(ix): log(x) for the float x > 0
log_inline(x) ==
    log_y(log_lo(log_p(log_hi(log_ar2(
        log_ar(log_r(log_z(x, NatOfQuotient(
                                  BigShiftRight(BigMinus(x.m, Off), 45)))),
               [i \in 1..7 |-> DoubleOfHalves(pow_log_data.poly[i])]))))))

\* y * log(x) = ehi + elo
pow_e(l, y) ==
    [ehi |-> DoubleTimes(y, l.y),
     elo |-> DoubleFma(y, l.tail,
                       DoubleFma(l.y, y, Negated(DoubleTimes(y, l.y))))]

\* kd = round(ehi * N / Ln2) for N = 128: adding Shift rounds to a whole
\* number
exp_kd(s) ==
    [ehi |-> s.ehi, elo |-> s.elo,
     kd |-> DoubleMinus(DoubleFma(s.ehi, DoubleOfHalves(exp_data.invln2N),
                                  DoubleOfHalves(exp_data.shift)),
                        DoubleOfHalves(exp_data.shift))]

\* r = ehi + elo - kd * Ln2 / N; ki is kd as a whole number
exp_r(s) ==
    [ki |-> IntOfDouble(s.kd),
     r |-> DoublePlus(s.elo,
               DoubleFma(s.kd, DoubleOfHalves(exp_data.negln2loN),
                   DoubleFma(s.kd, DoubleOfHalves(exp_data.negln2hiN),
                             s.ehi)))]

\* 2^(ki/N) = scale * (1 + tail), from row ki % N of the table
exp_scale(s) ==
    [r |-> s.r,
     r2 |-> DoubleTimes(s.r, s.r),
     tail |-> DoubleOfHalves(exp_data.tab[(s.ki % 128) + 1][1]),
     scale |-> [neg |-> FALSE,
                m |-> DoubleOfHalves(exp_data.tab[(s.ki % 128) + 1][2]).m,
                e |-> 1 - MantBits + (s.ki \div 128)]]

\* scale + scale * tmp for
\* tmp = tail + r + r2 * (C2 + r * C3) + r2 * r2 * (C4 + r * C5)
exp_tmp(s, C) ==
    DoubleFma(DoubleFma(DoubleFma(s.r, C[4], C[3]), DoubleTimes(s.r2, s.r2),
                        DoubleFma(DoubleFma(s.r, C[2], C[1]), s.r2,
                                  DoublePlus(s.r, s.tail))),
              s.scale, s.scale)

\* exp_inline(ehi, elo): exp(ehi + elo)
exp_inline(s) ==
    exp_tmp(exp_scale(exp_r(exp_kd(s))),
            [i \in 1..4 |-> DoubleOfHalves(exp_data.poly[i])])

\* pow(x, y) for floats x > 0, x # 1.0 and y = 2.0
ieee754_pow(x, y) == exp_inline(pow_e(log_inline(x), y))

\* wvl**2 for wvl = wavelength_um / 1e3 (wavelength_um in 1e-3 um, that is
\* in nm): float.__pow__ returns 0.0 and 1.0 for these bases without
\* calling pow, and calls it with the base negated when that is negative
wvl_pow2(wavelength_um) ==
    IF wavelength_um = 0 THEN DoubleZero
    ELSE IF Abs(wavelength_um) = UmUnits THEN LiteralDouble(1, 1)
    ELSE ieee754_pow(LiteralDouble(Abs(wavelength_um), UmUnits),
                     LiteralDouble(2, 1))

----------------------------------------------------------------------------
(* Values beyond the fixed-point range.  A term near its pole is of the    *)
(* order of 1e16: the square root and the effective index of such a value  *)
(* are computed on a significand of DecDigits decimal digits and a power   *)
(* of ten, [m, e] standing for m * 10^e; results are truncated to the      *)
(* significand.                                                            *)

DecDigits == 3 * 3
DecOne    == 10 ^ DecDigits

Sign(x) == IF x < 0 THEN 0 - 1 ELSE 1

\* x / 10^k truncated toward zero, k >= 0
ShiftDown(x, k) == IF k > DecDigits THEN 0 ELSE Sign(x) * (Abs(x) \div 10 ^ k)

\* m * 10^e with the significand brought to DecDigits digits
RECURSIVE DecOf(_, _)
DecOf(m, e) ==
    IF m = 0 THEN [m |-> 0, e |-> 0]
    ELSE IF Abs(m) >= DecOne THEN DecOf(ShiftDown(m, 1), e + 1)
    ELSE IF Abs(m) < DecOne \div 10 THEN DecOf(m * 10, e - 1)
    ELSE [m |-> m, e |-> e]

\* a * b \div c for whole a, b, c > 0, where a * b is no shorter than c and
\* the quotient is an integer of the model
MulOver(a, b, c) ==
    NatOfQuotient(BigOver(BigMul(BigOf(a), BigOf(b)), BigOf(c)))

DecTimes(a, b) ==
    IF a.m = 0 \/ b.m = 0 THEN [m |-> 0, e |-> 0]
    ELSE DecOf(Sign(a.m) * Sign(b.m) * MulOver(Abs(a.m), Abs(b.m), DecOne),
               a.e + b.e + DecDigits)

\* a / b, b # 0
DecOver(a, b) ==
    IF a.m = 0 THEN a
    ELSE IF Abs(a.m) >= Abs(b.m)
    THEN DecOf(Sign(a.m) * Sign(b.m)
                 * MulOver(Abs(a.m), DecOne \div 10, Abs(b.m)),
               a.e - b.e - (DecDigits - 1))
    ELSE DecOf(Sign(a.m) * Sign(b.m) * MulOver(Abs(a.m), DecOne, Abs(b.m)),
               a.e - b.e - DecDigits)

DecPlus(a, b) ==
    IF a.m = 0 THEN b
    ELSE IF b.m = 0 THEN a
    ELSE IF a.e >= b.e THEN DecOf(a.m + ShiftDown(b.m, a.e - b.e), a.e)
    ELSE DecOf(b.m + ShiftDown(a.m, b.e - a.e), b.e)

\* one Newton step for the square root of m from the estimate r0
NewtonStep(m, r0) == (r0 + MulOver(m, DecOne \div 10, r0)) \div 2

\* square root of m * 10^e, for m > 0 and e even
DecSqrtEven(m, e) ==
    DecOf(NewtonStep(m, ISqrt(m) * 10 ^ ((DecDigits - 1) \div 2)),
          (e - (DecDigits - 1)) \div 2)

\* square root of a > 0
DecSqrt(a) ==
    IF a.e % 2 = 1 THEN DecSqrtEven(a.m \div 10, a.e + 1)
    ELSE DecSqrtEven(a.m, a.e)

----------------------------------------------------------------------------
(* str.lower() on crystal-system strings *)

Upper == <<"A","B","C","D","E","F","G","H","I","J","K","L","M",
           "N","O","P","Q","R","S","T","U","V","W","X","Y","Z">>
Lowercase == <<"a","b","c","d","e","f","g","h","i","j","k","l","m",
               "n","o","p","q","r","s","t","u","v","w","x","y","z">>

LowerChar(ch) ==
    IF \E i \in 1..Len(Upper) : Upper[i] = ch
    THEN Lowercase[CHOOSE i \in 1..Len(Upper) : Upper[i] = ch]
    ELSE ch

Lower(s) == [i \in 1..Len(s) |-> LowerChar(s[i])]

\* the crystal_system strings: those the code compares with, "triagonal" of
\* src/database.py, and strings in another case or unrecognized, as inputs
Sys ==
    [cubic |-> <<"c","u","b","i","c">>,
     tetragonal |-> <<"t","e","t","r","a","g","o","n","a","l">>,
     hexagonal |-> <<"h","e","x","a","g","o","n","a","l">>,
     trigonal |-> <<"t","r","i","g","o","n","a","l">>,
     rhombohedral |-> <<"r","h","o","m","b","o","h","e","d","r","a","l">>,
     orthorhombic |-> <<"o","r","t","h","o","r","h","o","m","b","i","c">>,
     monoclinic |-> <<"m","o","n","o","c","l","i","n","i","c">>,
     triclinic |-> <<"t","r","i","c","l","i","n","i","c">>,
     triagonal |-> <<"t","r","i","a","g","o","n","a","l">>,
     icosahedral |-> <<"i","c","o","s","a","h","e","d","r","a","l">>,
     Cubic |-> <<"C","u","b","i","c">>,
     HEXAGONAL |-> <<"H","E","X","A","G","O","N","A","L">>,
     Monoclinic |-> <<"M","o","n","o","c","l","i","n","i","c">>]

----------------------------------------------------------------------------
(* Python values *)

New == "src/crystaldatabase/database.py"
Old == "src/database.py"

NoObject == [cls |-> "<none>"]

\* outcomes of a call: a returned value or a raised exception
RetFloat(n) == [kind |-> "return", type |-> "float", n |-> n]
\* a float beyond the fixed-point range: n * 10^e10
RetFloatDec(n, e10) ==
    [kind |-> "return", type |-> "float", n |-> n, e10 |-> e10]
RetNaN      == [kind |-> "return", type |-> "nan"]
RetNone     == [kind |-> "return", type |-> "NoneType"]
RetStr(s)   == [kind |-> "return", type |-> "str", s |-> s]
RetObject   == [kind |-> "return", type |-> "object"]
\* text: the constant part of the message; shown: the values formatted into it
Raise(exc, text, shown) ==
    [kind |-> "raise", type |-> exc, text |-> text, shown |-> shown]

IsRaise(o)  == o.kind = "raise"

\* polarization arguments
PStr(s)          == [t |-> "str", s |-> s]
PFloat(deg)      == [t |-> "float", deg |-> deg]
PInt(deg)        == [t |-> "int", deg |-> deg]
PDict(axis, deg) == [t |-> "dict", axis |-> axis, degree |-> deg]

\* type(polarization), as the class object Python hands back
PyType(p) ==
    CASE p.t = "str"   -> "<class 'str'>"
      [] p.t = "float" -> "<class 'float'>"
      [] p.t = "int"   -> "<class 'int'>"
      [] p.t = "dict"  -> "<class 'dict'>"

\* polarization == "<literal>"
PyEqStr(p, lit) == p.t = "str" /\ p.s = lit

----------------------------------------------------------------------------
(* CrystalData.get_axiality *)

\* the attribute of self that get_axiality reads
SystemAttr(f) == IF f = New THEN "crystal_system" ELSE "system"

\* the mapping of lines 20-27, on the lower-cased string
axiality_of(system) ==
    IF system \in {Sys.cubic}
    THEN RetStr("isotropic")
    ELSE IF system \in {Sys.tetragonal, Sys.hexagonal, Sys.trigonal, Sys.rhombohedral}
    THEN RetStr("uniaxial")
    ELSE IF system \in {Sys.orthorhombic, Sys.monoclinic, Sys.triclinic}
    THEN RetStr("biaxial")
    ELSE Raise("ValueError", "Unknown crystal system: ",
               <<[expr |-> "system", str |-> system]>>)

get_axiality(f, slf) ==
    IF SystemAttr(f) \notin DOMAIN slf
    THEN Raise("AttributeError", "object has no attribute ",
               <<[expr |-> "attribute", name |-> SystemAttr(f)]>>)
    ELSE axiality_of(Lower(slf[SystemAttr(f)]))

----------------------------------------------------------------------------
(* The _sellmeier_eq hooks.  A hook returns [err, v, e10, dbl]: err names  *)
(* the exception it raised ("" for none); n^2 is v * 10^e10 in 1e-6 units, *)
(* with e10 = 0 for every value the fixed-point units hold, and beyond     *)
(* them (e10 > 0) v holds the first DecDigits decimal digits.  dbl is the  *)
(* float itself where the value was computed in floats, and 0.0 where it   *)
(* was computed in fixed point.  A hook computes in floats every n^2 near  *)
(* 0.0: there v is the float rounded to the unit, and the sign and the     *)
(* square root are those of dbl.                                           *)

HookVal(v)   == [err |-> "", v |-> v, e10 |-> 0, dbl |-> DoubleZero]
HookErr(exc) == [err |-> exc, v |-> 0, e10 |-> 0, dbl |-> DoubleZero]

\* the first DecDigits decimal digits of the long number a * 10^e10
RECURSIVE DecOfBig(_, _)
DecOfBig(a, e10) ==
    IF Len(a) <= 3 THEN DecOf(NatOfBig(a, Len(a), 0), e10)
    ELSE IF Len(a) <= 5 THEN DecOfBig(BigDiv(a, 10)[1], e10 + 1)
    ELSE DecOfBig(BigDiv(a, One)[1], e10 + 6)

\* a * 10^k
RECURSIVE BigScale10(_, _)
BigScale10(a, k) == IF k = 0 THEN a ELSE BigScale10(BigTimes(a, 10), k - 1)

\* |x| in 1e-6 units, to the nearest whole number
UnitsOf(x) ==
    IF x.e >= 0 THEN BigShiftLeft(BigTimes(x.m, One), x.e)
    ELSE IF 0 - x.e > MantBits + RadixBits + RadixBits THEN <<>>
    ELSE BigDiv(BigSucc(BigShiftRight(BigTimes(x.m, One), 0 - x.e - 1)[1]),
                2)[1]

\* the float x, of d = v * 10^e10 units
HookOfDec(x, d) ==
    [err |-> "", v |-> IF x.neg THEN 0 - d.m ELSE d.m, e10 |-> d.e, dbl |-> x]

\* the float x, of |x| = units
HookOfUnits(x, units) ==
    IF Len(units) <= 3 /\ NatOfBig(units, Len(units), 0) < DecOne
    THEN HookOfDec(x, [m |-> NatOfBig(units, Len(units), 0), e |-> 0])
    ELSE HookOfDec(x, DecOfBig(units, 0))

\* the float x as the value of a hook
HookDouble(x) == HookOfUnits(x, UnitsOf(x))

\* whether the value h was computed in floats
InFloat(h) == h.err = "" /\ (h.e10 > 0 \/ ~IsZero(h.dbl))

\* the float a hook value stands for: the nearest to v * 10^e10 units
\* where the value was computed in fixed point
ToDouble(h) ==
    IF ~IsZero(h.dbl) THEN h.dbl
    ELSE IF h.v < 0
    THEN Negated(DoubleOfBigRatio(BigScale10(BigOf(0 - h.v), h.e10), One))
    ELSE DoubleOfBigRatio(BigScale10(BigOf(h.v), h.e10), One)

\* the whole number n of 1e-6 units as the value of a hook
HookInt(n) ==
    IF Abs(n) < DecOne THEN HookVal(n) ELSE HookDouble(LiteralDouble(n, One))

\* coeff[i] (Python index, from 0)
At(coeff, i) == coeff[i + 1]

\* whether wvl**2 - b stays within the integers of the model
Fits(wavelength_um, b) == Abs(wavelength_um) < 2 ^ 15 /\ b > 0 - 2 ^ 30

\* whether p - b cancels, for p = wvl**2 and Fits(wavelength_um, b): the
\* difference of the two floats then keeps few of their digits, and is not
\* the exact difference that fixed point divides by
Cancels(p, b) == Abs(p - b) < (IF p > Abs(b) THEN p ELSE Abs(b)) \div 2 ^ 10

\* whether a * b / c surely lies in the fixed-point range: it is less than
\* (a \div c + 1) * b
InFixedPoint(a, b, c) ==
    /\ c # 0
    /\ b = 0 \/ Abs(a) \div Abs(c) < DecOne \div Abs(b)

\* num / den in floats: ZeroDivisionError when den is 0.0
QuotientOrError(num, den) ==
    IF IsZero(den) THEN HookErr("ZeroDivisionError")
    ELSE HookDouble(DoubleOver(num, den))

\* a * pow / (pow - b) for pow = wvl**2
ResonanceOf(a, pow, b) ==
    QuotientOrError(DoubleTimes(a, pow), DoubleMinus(pow, b))

\* a * wvl**2 / (wvl**2 - b) in floats, with a, b the coefficients at
\* Python indices ia, ib: IndexError past the end of the vector
ResonanceFloat(wavelength_um, coeff, ia, ib) ==
    IF ia >= Len(coeff) \/ ib >= Len(coeff) THEN HookErr("IndexError")
    ELSE ResonanceOf(LiteralDouble(At(coeff, ia), One),
                     wvl_pow2(wavelength_um),
                     LiteralDouble(At(coeff, ib), One))

\* a * wvl**2 / (wvl**2 - b): in fixed point, and in floats near a pole,
\* where the difference cancels, the quotient leaves the fixed-point range
\* or wvl**2 = b to the unit
Resonance(wavelength_um, coeff, ia, ib) ==
    IF /\ ia < Len(coeff) /\ ib < Len(coeff)
       /\ Fits(wavelength_um, At(coeff, ib))
       /\ ~Cancels(wavelength_um * wavelength_um, At(coeff, ib))
       /\ InFixedPoint(At(coeff, ia), wavelength_um * wavelength_um,
                       wavelength_um * wavelength_um - At(coeff, ib))
    THEN HookVal(MulDiv(At(coeff, ia), wavelength_um * wavelength_um,
                        wavelength_um * wavelength_um - At(coeff, ib)))
    ELSE ResonanceFloat(wavelength_um, coeff, ia, ib)

\* a / (wvl**2 - b) in floats
PoleFloat(wavelength_um, coeff, ia, ib) ==
    IF ia >= Len(coeff) \/ ib >= Len(coeff) THEN HookErr("IndexError")
    ELSE QuotientOrError(LiteralDouble(At(coeff, ia), One),
                         DoubleMinus(wvl_pow2(wavelength_um),
                                     LiteralDouble(At(coeff, ib), One)))

\* a / (wvl**2 - b)
Pole(wavelength_um, coeff, ia, ib) ==
    IF /\ ia < Len(coeff) /\ ib < Len(coeff)
       /\ Fits(wavelength_um, At(coeff, ib))
       /\ ~Cancels(wavelength_um * wavelength_um, At(coeff, ib))
       /\ InFixedPoint(At(coeff, ia), One,
                       wavelength_um * wavelength_um - At(coeff, ib))
    THEN HookVal(MulDiv(At(coeff, ia), One,
                        wavelength_um * wavelength_um - At(coeff, ib)))
    ELSE PoleFloat(wavelength_um, coeff, ia, ib)

\* a * wvl**2 in floats
BackgroundFloat(wavelength_um, coeff, ia) ==
    IF ia >= Len(coeff) THEN HookErr("IndexError")
    ELSE HookDouble(DoubleTimes(LiteralDouble(At(coeff, ia), One),
                                wvl_pow2(wavelength_um)))

\* a * wvl**2
Background(wavelength_um, coeff, ia) ==
    IF /\ ia < Len(coeff)
       /\ Fits(wavelength_um, 0)
       /\ InFixedPoint(At(coeff, ia), wavelength_um * wavelength_um, One)
    THEN HookVal(MulDiv(At(coeff, ia), wavelength_um * wavelength_um, One))
    ELSE BackgroundFloat(wavelength_um, coeff, ia)

\* coeff[i] alone, in floats
TermFloat(coeff, i) ==
    IF i >= Len(coeff) THEN HookErr("IndexError")
    ELSE HookDouble(LiteralDouble(At(coeff, i), One))

\* coeff[i] alone
Term(coeff, i) ==
    IF i >= Len(coeff) THEN HookErr("IndexError") ELSE HookInt(At(coeff, i))

\* a + b: in fixed point while both terms are, in floats otherwise
HookPlus(a, b) ==
    IF ~InFloat(a) /\ ~InFloat(b) THEN HookInt(a.v + b.v)
    ELSE HookDouble(DoublePlus(ToDouble(a), ToDouble(b)))

\* the sum of the terms, left to right; the first exception wins
RECURSIVE SumFrom(_, _, _)
SumFrom(acc, ts, i) ==
    IF i > Len(ts) THEN acc
    ELSE IF ts[i].err # "" THEN ts[i]
    ELSE SumFrom(HookPlus(acc, ts[i]), ts, i + 1)

SumTerms(ts) ==
    IF ts = <<>> THEN HookVal(0)
    ELSE IF ts[1].err # "" THEN ts[1]
    ELSE SumFrom(ts[1], ts, 2)

\* whether the fixed-point sum h is too near 0.0 for its unit: the terms
\* were truncated, which leaves the sign of such a sum, and the digits of
\* its square root, undecided
NearZero(h) == h.err = "" /\ Abs(h.v) < 10 ^ 3

\* the fixed-point sum, or the sum in floats where the fixed-point sum
\* left the fixed-point range or came near 0.0
SumOr(sum, floats) ==
    IF InFloat(sum) \/ NearZero(sum) THEN SumTerms(floats) ELSE sum

\* the value of a hook from its terms in fixed point; where a term or the
\* sum leaves the fixed-point range, or the sum comes near 0.0, from its
\* terms in floats, so that the sum rounds as the code's does
SumOf(terms, floats) ==
    IF \E i \in 1..Len(terms) : InFloat(terms[i]) THEN SumTerms(floats)
    ELSE SumOr(SumTerms(terms), floats)

LiNbO3_sellmeier_eq(wavelength_um, coefficient) ==
    SumOf(<<Term(coefficient, 0),
            Resonance(wavelength_um, coefficient, 1, 2),
            Resonance(wavelength_um, coefficient, 3, 4),
            Resonance(wavelength_um, coefficient, 5, 6)>>,
          <<TermFloat(coefficient, 0),
            ResonanceFloat(wavelength_um, coefficient, 1, 2),
            ResonanceFloat(wavelength_um, coefficient, 3, 4),
            ResonanceFloat(wavelength_um, coefficient, 5, 6)>>)

BaMgF4_sellmeier_eq(wavelength_um, coefficient) ==
    SumOf(<<Term(coefficient, 0),
            Pole(wavelength_um, coefficient, 1, 2),
            Resonance(wavelength_um, coefficient, 3, 4),
            Background(wavelength_um, coefficient, 5)>>,
          <<TermFloat(coefficient, 0),
            PoleFloat(wavelength_um, coefficient, 1, 2),
            ResonanceFloat(wavelength_um, coefficient, 3, 4),
            BackgroundFloat(wavelength_um, coefficient, 5)>>)

SiO2_sellmeier_eq(wavelength_um, coefficient) ==
    SumOf(<<Term(coefficient, 0),
            Term(coefficient, 1),
            Resonance(wavelength_um, coefficient, 2, 3),
            Resonance(wavelength_um, coefficient, 4, 5)>>,
          <<TermFloat(coefficient, 0),
            TermFloat(coefficient, 1),
            ResonanceFloat(wavelength_um, coefficient, 2, 3),
            ResonanceFloat(wavelength_um, coefficient, 4, 5)>>)

\* src/database.py declares the hooks without self: the bound call
\* self._sellmeier_eq(wvl, coeff) then binds coefficient to the float wvl,
\* and coeff[0] raises TypeError
Unbound_sellmeier_eq(wavelength_um, coefficient) == HookErr("TypeError")

\* self._sellmeier_eq(wvl, coeff): the hook of the class that defines it
sellmeier_eq(f, slf, wvl, coeff) ==
    IF f = Old /\ slf.hook \in {"LiNbO3", "BaMgF4"}
    THEN Unbound_sellmeier_eq(wvl, coeff)
    ELSE CASE slf.hook = "LiNbO3" -> LiNbO3_sellmeier_eq(wvl, coeff)
           [] slf.hook = "BaMgF4" -> BaMgF4_sellmeier_eq(wvl, coeff)
           [] slf.hook = "SiO2"   -> SiO2_sellmeier_eq(wvl, coeff)

----------------------------------------------------------------------------
(* numpy *)

\* a float is [nan, v, e10]: v * 10^e10 in index units (1e-4), with e10 = 0
\* for 0.0 and for every value the fixed-point unit holds, from one unit
\* up; above and below them v holds the first DecDigits decimal digits
NaN      == [nan |-> TRUE, v |-> 0, e10 |-> 0]
Float(v) == [nan |-> FALSE, v |-> v, e10 |-> 0]

FloatDec(d) ==
    IF d.m = 0 THEN Float(0)
    ELSE IF d.e <= 0 /\ d.e > 0 - DecDigits
    THEN Float(ShiftDown(d.m, 0 - d.e))
    ELSE [nan |-> FALSE, v |-> d.m, e10 |-> d.e]

\* np.sqrt of n^2 (1e-6 units), in index units (1e-4): nan below zero
np_sqrt(x) ==
    IF x < 0 THEN NaN
    ELSE IF x <= 21000000 THEN Float(ISqrt(x * 100))
    ELSE FloatDec(DecSqrt(DecOf(x, 2)))

\* the first DecDigits decimal digits of (a \div 2^k) * 10^e10, for a long
\* a > 0 scaled up by powers of ten until the quotient holds them
RECURSIVE DecOfShifted(_, _, _)
DecOfShifted(a, k, e10) ==
    IF Len(BigShiftRight(a, k)[1]) > 3
    THEN DecOfBig(BigShiftRight(a, k)[1], e10)
    ELSE DecOfShifted(BigTimes(a, One), k, e10 - 6)

\* np.sqrt of a float 0.0 < x < 1.0
np_sqrt_dec(d) == FloatDec(DecSqrt(DecOf(d.m, d.e + 2)))

\* np.sqrt of the n^2 a hook returned: nan below zero
np_sqrt_of(n_squared) ==
    IF ~IsZero(n_squared.dbl) /\ n_squared.dbl.neg THEN NaN
    ELSE IF ~IsZero(n_squared.dbl) /\ NearZero(n_squared)
    THEN np_sqrt_dec(DecOfShifted(BigTimes(n_squared.dbl.m, One),
                                  0 - n_squared.dbl.e, 0))
    ELSE IF n_squared.e10 = 0 THEN np_sqrt(n_squared.v)
    ELSE IF n_squared.v < 0 THEN NaN
    ELSE FloatDec(DecSqrt(DecOf(n_squared.v, n_squared.e10 + 2)))

\* 4 * sin(theta)**2 for theta = np.radians(deg), at the angles where it is
\* a whole number
Sin2x4(deg) ==
    CASE deg = 0 -> 0 [] deg = 30 -> 1 [] deg = 45 -> 2 [] deg = 60 -> 3
      [] deg = 90 -> 4

\* 4 * cos(theta)**2: np.cos(np.radians(90)) is 6.123233995736766e-17
Cos2x4(deg) ==
    IF deg = 90 THEN [m |-> 149975978, e |-> 0 - 40]
    ELSE DecOf(4 - Sin2x4(deg), 0)

\* n_o*n_e / sqrt(n_o**2 * sin**2 + n_e**2 * cos**2) for indices beyond the
\* fixed-point range
n_eff_dec(o, e, s4, c4) ==
    FloatDec(DecOver(DecTimes(DecOf(2, 0), DecTimes(o, e)),
                     DecSqrt(DecPlus(DecTimes(DecTimes(o, o), DecOf(s4, 0)),
                                     DecTimes(DecTimes(e, e), c4)))))

\* n_o*n_e / sqrt(n_o**2 * sin**2 + n_e**2 * cos**2).  np.sin(0.0) is 0.0
\* but np.cos(np.radians(90)) is 6.1e-17, not 0.0: the denominator is 0.0,
\* and the quotient 0/0 = nan, only when n_e = 0 and either n_o = 0 or the
\* angle is 0; a zero numerator over any other denominator is 0.0
n_eff_of(n_o, n_e, deg) ==
    IF n_o.nan \/ n_e.nan THEN NaN
    ELSE IF n_e.v = 0 /\ (n_o.v = 0 \/ deg = 0) THEN NaN
    ELSE IF n_o.v = 0 \/ n_e.v = 0 THEN Float(0)
    ELSE IF n_o.e10 = 0 /\ n_e.e10 = 0 /\ n_o.v <= 46340 /\ n_e.v <= 46340
    THEN LET s4 == Sin2x4(deg)
             o2 == n_o.v * n_o.v
             e2 == n_e.v * n_e.v
             d  == (o2 \div 4) * s4 + (e2 \div 4) * (4 - s4)
                   + ((o2 % 4) * s4 + (e2 % 4) * (4 - s4)) \div 4
         IN  Float((n_o.v * n_e.v) \div ISqrt(d))
    ELSE n_eff_dec(DecOf(n_o.v, n_o.e10), DecOf(n_e.v, n_e.e10), Sin2x4(deg),
                   Cos2x4(deg))

Return(x) ==
    IF x.nan THEN RetNaN
    ELSE IF x.e10 = 0 THEN RetFloat(x.v)
    ELSE RetFloatDec(x.v, x.e10)

----------------------------------------------------------------------------
(* CrystalData.get_n *)

\* the 1e3 of "wvl = wavelength_nm / 1e3"
NmPerUm == 1000

\* wavelength_nm / 1e3, in wavelength units
ToMicrons(wavelength_nm) == (wavelength_nm * UmUnits) \div NmPerUm

\* (mutant of OutOfRange) the interval taken as open: the bounds rejected
OutOfRange_open(wvl, range_min, range_max) == wvl <= range_min \/ wvl >= range_max

\* wvl < range_min or wvl > range_max
OutOfRange(wvl, range_min, range_max) == wvl < range_min \/ wvl > range_max

RangeError(range_min, range_max) ==
    Raise("ValueError", "Wavelength out of approximation range: {}-{} um",
          <<[expr |-> "range_min", num |-> range_min],
            [expr |-> "range_max", num |-> range_max]>>)

KeyError(key) == Raise("KeyError", "", <<[expr |-> "key", name |-> key]>>)

HookRaise(h) == Raise(h.err, "", <<>>)

UniaxialText(f) ==
    IF f = New
    THEN "Polarization for uniaxial crystal has to be 'o/e' or degree from optic axis: "
    ELSE "Polarization has to be 'o/e' or degree from optic axis: "

\* (mutant of get_n_isotropic) the polarization validated as the uniaxial
\* branch does, only "iso" accepted
get_n_isotropic_validating(slf, n_squared, polarization) ==
    IF "iso" \notin DOMAIN slf.sellmeier THEN KeyError("iso")
    ELSE IF n_squared["iso"].err # "" THEN HookRaise(n_squared["iso"])
    ELSE IF PyEqStr(polarization, "iso")
    THEN Return(np_sqrt_of(n_squared["iso"]))
    ELSE Raise("ValueError", "Polarization for isotropic crystal: ",
               <<[expr |-> "polarization", pol |-> polarization]>>)

\* lines 48-52
get_n_isotropic(slf, n_squared, polarization) ==
    IF "iso" \notin DOMAIN slf.sellmeier THEN KeyError("iso")
    ELSE IF n_squared["iso"].err # "" THEN HookRaise(n_squared["iso"])
    ELSE Return(np_sqrt_of(n_squared["iso"]))

\* lines 62-71
get_n_uniaxial_select(f, n_o, n_e, polarization) ==
    IF PyEqStr(polarization, "o") THEN Return(n_o)
    ELSE IF PyEqStr(polarization, "e") THEN Return(n_e)
    ELSE IF PyType(polarization) = "float"
    THEN Return(n_eff_of(n_o, n_e, polarization.deg))
    ELSE Raise("ValueError", UniaxialText(f),
               <<[expr |-> "polarization", pol |-> polarization]>>)

\* lines 54-71
get_n_uniaxial(f, slf, n_squared, polarization) ==
    IF "o" \notin DOMAIN slf.sellmeier THEN KeyError("o")
    ELSE IF "e" \notin DOMAIN slf.sellmeier THEN KeyError("e")
    ELSE IF n_squared["o"].err # "" THEN HookRaise(n_squared["o"])
    ELSE IF n_squared["e"].err # "" THEN HookRaise(n_squared["e"])
    ELSE get_n_uniaxial_select(f, np_sqrt_of(n_squared["o"]),
                               np_sqrt_of(n_squared["e"]), polarization)

\* lines 84-92: the dict branch computes theta and falls off the end of the
\* function, as does every polarization no branch matches
get_n_biaxial_select(n_a, n_b, n_c, polarization) ==
    IF PyEqStr(polarization, "a") THEN Return(n_a)
    ELSE IF PyEqStr(polarization, "b") THEN Return(n_b)
    ELSE IF PyEqStr(polarization, "c") THEN Return(n_c)
    ELSE IF PyType(polarization) = "<class 'dict'>"
    THEN RetNone
    ELSE RetNone

\* lines 73-92
get_n_biaxial(slf, n_squared, polarization) ==
    IF "a" \notin DOMAIN slf.sellmeier THEN KeyError("a")
    ELSE IF "b" \notin DOMAIN slf.sellmeier THEN KeyError("b")
    ELSE IF "c" \notin DOMAIN slf.sellmeier THEN KeyError("c")
    ELSE IF n_squared["a"].err # "" THEN HookRaise(n_squared["a"])
    ELSE IF n_squared["b"].err # "" THEN HookRaise(n_squared["b"])
    ELSE IF n_squared["c"].err # "" THEN HookRaise(n_squared["c"])
    ELSE get_n_biaxial_select(np_sqrt_of(n_squared["a"]),
                              np_sqrt_of(n_squared["b"]),
                              np_sqrt_of(n_squared["c"]), polarization)

\* lines 48-92: the branch of self.axiality, or None where no branch
\* matches; n_squared[key] is self._sellmeier_eq(wvl, self.sellmeier[key])
get_n_branch(f, slf, n_squared, polarization) ==
    IF slf.axiality = "isotropic"
    THEN get_n_isotropic(slf, n_squared, polarization)
    ELSE IF slf.axiality = "uniaxial"
    THEN get_n_uniaxial(f, slf, n_squared, polarization)
    ELSE IF slf.axiality = "biaxial"
    THEN get_n_biaxial(slf, n_squared, polarization)
    ELSE RetNone

\* the outcome of self.get_n(wavelength_nm, polarization)
get_n(f, slf, wavelength_nm, polarization) ==
    IF OutOfRange(ToMicrons(wavelength_nm), slf.sellmeier["range"][1],
                  slf.sellmeier["range"][2])
    THEN RangeError(slf.sellmeier["range"][1], slf.sellmeier["range"][2])
    ELSE get_n_branch(f, slf,
                      [key \in DOMAIN slf.sellmeier \ {"range"} |->
                          sellmeier_eq(f, slf, ToMicrons(wavelength_nm),
                                       slf.sellmeier[key])],
                      polarization)

----------------------------------------------------------------------------
(* The crystal classes.  A class is the data its __init__ assigns; hook    *)
(* names the class whose _sellmeier_eq its instances run.  d_matrix and    *)
(* reference are data no method reads and are left out.                    *)

LiNbO3(f) ==
    [cls |-> "LiNbO3", name |-> "LiNbO3", hook |-> "LiNbO3",
     crystal_system |-> IF f = New THEN Sys.trigonal ELSE Sys.triagonal,
     point_group |-> "3m",
     sellmeier |->
       [o |-> IF f = New
              THEN <<1000000, 2673400, 1764, 1229000, 59140, 12614000, 474600000>>
              ELSE <<1000000, 2673400, 1764, 1229000, 59140, 474600000>>,
        e |-> <<1000000, 2980400, 20470, 598100, 66600, 8954300, 416080000>>,
        range |-> <<400, 5000>>]]

BaMgF4(f) ==
    [cls |-> "BaMgF4", name |-> "BaMgF4", hook |-> "BaMgF4",
     crystal_system |-> Sys.orthorhombic,
     point_group |-> "mm2",
     sellmeier |->
       [a |-> <<2147900, 7270, 9652, 8101530, 1394250000, 3205>>,
        b |-> <<2079770, 6502, 10011, 8182890, 1451040000, 3215>>,
        c |-> <<2128500, 7047, 9998, 8567520, 1413170000, 3320>>,
        range |-> <<150, 10000>>]]

SiO2(f) ==
    [cls |-> "SiO2", name |-> "SiO2", hook |-> "SiO2",
     crystal_system |-> Sys.trigonal,
     point_group |-> "32",
     sellmeier |->
       [o |-> <<1000000, 286041, 1070441, 10059, 1102022, 100000000>>,
        e |-> <<1000000, 288518, 1095099, 10210, 1156625, 100000000>>,
        range |-> <<198, 2050>>]]

\* the crystal classes each file defines (src/crystaldatabase/database.py
\* lists its three in the CRYSTALS registry; src/database.py has no registry)
FileClasses(f) ==
    IF f = New THEN {LiNbO3(f), BaMgF4(f), SiO2(f)} ELSE {LiNbO3(f), BaMgF4(f)}

\* Subclasses a caller writes on the pattern of the file's own: they inherit
\* _sellmeier_eq and replace the data.  CubicGlass is an isotropic crystal;
\* BadFit is a uniaxial one whose "e" fit is defective (n^2 < 0 in range).
CubicGlass ==
    [cls |-> "CubicGlass", name |-> "CubicGlass", hook |-> "SiO2",
     crystal_system |-> Sys.Cubic,
     point_group |-> "m3m",
     sellmeier |->
       [iso |-> <<1000000, 286041, 1070441, 10059, 1102022, 100000000>>,
        range |-> <<198, 2050>>]]

BadFit ==
    [cls |-> "BadFit", name |-> "BadFit", hook |-> "LiNbO3",
     crystal_system |-> Sys.HEXAGONAL,
     point_group |-> "6mm",
     sellmeier |->
       [o |-> <<1000000, 2673400, 1764, 1229000, 59140, 12614000, 474600000>>,
        e |-> <<0 - 10000000, 2980400, 20470, 598100, 66600, 8954300, 416080000>>,
        range |-> <<400, 5000>>]]

Subclasses == {CubicGlass, BadFit}

Classes(f) == FileClasses(f) \cup Subclasses

\* __init__: name and crystal_system, then axiality from get_axiality (an
\* exception ends the construction), then the tables
init(f, c) ==
    LET s1 == [cls |-> c.cls, hook |-> c.hook, name |-> c.name,
               crystal_system |-> c.crystal_system]
        ax == get_axiality(f, s1)
    IN  IF IsRaise(ax)
        THEN [out |-> ax, obj |-> NoObject]
        ELSE [out |-> RetObject,
              obj |-> [cls |-> c.cls, hook |-> c.hook, name |-> c.name,
                       crystal_system |-> c.crystal_system,
                       axiality |-> ax.s,
                       point_group |-> c.point_group,
                       sellmeier |-> c.sellmeier]]

----------------------------------------------------------------------------
(* Inputs *)

SystemStrings ==
    {Sys.cubic, Sys.tetragonal, Sys.hexagonal, Sys.trigonal, Sys.rhombohedral,
     Sys.orthorhombic, Sys.monoclinic, Sys.triclinic,
     Sys.Cubic, Sys.HEXAGONAL, Sys.Monoclinic, Sys.icosahedral, Sys.triagonal}

Polarizations ==
    {PStr("unpolarized"), PStr("o"), PStr("e"), PStr("a"), PStr("b"), PStr("c"),
     PStr("iso"), PFloat(0), PFloat(90), PFloat(45), PInt(90),
     PDict("a", 30), PDict("b", 60)}

\* a range bound (wavelength units) in nm
NmOf(um) == (um * NmPerUm) \div UmUnits

\* the ends of the valid range, up to MaxEps nm outside them, 1000 nm and 1500 nm
WavelengthsFor(slf) ==
    {NmOf(slf.sellmeier["range"][1]) - e : e \in 0..MaxEps}
    \cup {NmOf(slf.sellmeier["range"][2]) + e : e \in 0..MaxEps}
    \cup {NmPerUm, NmPerUm + 500}

----------------------------------------------------------------------------
(* The state machine: a caller loads one of the two files, constructs a   *)
(* descriptor and calls its methods.                                       *)
(*   file : the module loaded                                              *)
(*   self : the descriptor in use (NoObject before a construction and      *)
(*          after a failed one)                                            *)
(*   made : the last constructor call: class, outcome, object as built     *)
(*   last : the last method call since then, with its outcome              *)

NoCall == [op |-> "<none>"]

Init ==
    /\ file \in {New, Old}
    /\ self = NoObject
    /\ made = [cls |-> "<none>", out |-> RetNone, obj |-> NoObject]
    /\ last = NoCall

Construct(c) ==
    LET r == init(file, c)
    IN  /\ made' = [cls |-> c.cls, out |-> r.out, obj |-> r.obj]
        /\ self' = r.obj
        /\ last' = NoCall
        /\ UNCHANGED file

\* self.get_n(wavelength_nm, polarization): the method assigns to no
\* attribute of self
GetN(wavelength_nm, polarization) ==
    /\ self # NoObject
    /\ last' = [op |-> "get_n", nm |-> wavelength_nm, pol |-> polarization,
                out |-> get_n(file, self, wavelength_nm, polarization)]
    /\ UNCHANGED <<file, self, made>>

\* get_axiality on an instance whose __init__ has set crystal_system
GetAxiality(system) ==
    /\ last' = [op |-> "get_axiality", system |-> system,
                out |-> get_axiality(file,
                           [cls |-> "Probe", crystal_system |-> system])]
    /\ UNCHANGED <<file, self, made>>

Next ==
    \/ \E c \in Classes(file) : Construct(c)
    \/ /\ self # NoObject
       /\ \E w \in WavelengthsFor(self), p \in Polarizations : GetN(w, p)
    \/ \E s \in SystemStrings : GetAxiality(s)

Spec == Init /\ [][Next]_vars

----------------------------------------------------------------------------
(* What the specification says, stated without the code's own operators    *)

IsGetN == last.op = "get_n"

\* wavelength_nm / 1000 lies in the closed interval validRange
InRangeNm(slf, nm) ==
    /\ slf.sellmeier["range"][1] * NmPerUm <= nm * UmUnits
    /\ nm * UmUnits <= slf.sellmeier["range"][2] * NmPerUm

\* the OutOfRange error
IsRangeError(o) ==
    /\ o.kind = "raise"
    /\ o.type = "ValueError"
    /\ o.text = "Wavelength out of approximation range: {}-{} um"

\* a value of expression e is formatted into the message of o
Shows(o, e) == \E i \in 1..Len(o.shown) : o.shown[i].expr = e

\* the axiality the specification gives each crystal-system string tried
SpecAxiality(s) ==
    IF s \in {Sys.cubic, Sys.Cubic} THEN "isotropic"
    ELSE IF s \in {Sys.tetragonal, Sys.hexagonal, Sys.HEXAGONAL, Sys.trigonal,
                   Sys.rhombohedral} THEN "uniaxial"
    ELSE IF s \in {Sys.orthorhombic, Sys.monoclinic, Sys.Monoclinic, Sys.triclinic}
    THEN "biaxial"
    ELSE "unknown"

AxisKeys(ax) ==
    CASE ax = "isotropic" -> {"iso"}
      [] ax = "uniaxial"  -> {"o", "e"}
      [] ax = "biaxial"   -> {"a", "b", "c"}
      [] OTHER            -> {}

\* the vector length each family's form consumes: Form A 7, Forms B and C 6
FormLen(hook) == IF hook = "LiNbO3" THEN 7 ELSE 6

\* n (1e-4 units) is the square root of n2 (1e-6 units), to the unit
IsRootOf(n, n2) == n * n <= n2 * 100 /\ n2 * 100 < (n + 1) * (n + 1)

\* n^2 of axis k of the descriptor in use at wavelength nm
AxisSquared(k, nm) ==
    sellmeier_eq(file, self, ToMicrons(nm), self.sellmeier[k])

\* o is the index of axis k at wavelength nm
IsIndexOf(o, k, nm) ==
    /\ o.kind = "return"
    /\ o.type = "float"
    /\ AxisSquared(k, nm).err = ""
    /\ AxisSquared(k, nm).v >= 0
    /\ IsRootOf(o.n, AxisSquared(k, nm).v)

----------------------------------------------------------------------------
(* Claims *)

\* C1: get_n rejects a wavelength with the OutOfRange error exactly when
\* wavelength_nm / 1000 lies outside the closed interval validRange: the
\* two bounds themselves pass the range validation, anything strictly
\* below min or above max raises and returns no index.
C1_ClosedRange ==
    IsGetN => (IsRangeError(last.out) <=> ~InRangeNm(self, last.nm))

\* a call exactly at validRange.max that returned an index
C1_Witness ==
    /\ IsGetN
    /\ last.nm * UmUnits = self.sellmeier["range"][2] * NmPerUm
    /\ last.out.kind = "return"
    /\ last.out.type = "float"

\* C2 (as claimed): on a uniaxial crystal and an in-range wavelength a
\* numeric polarization angle returns an index; 0 degrees returns what "o"
\* returns and 90 degrees what "e" returns.
C2_AngleMixing ==
    (/\ IsGetN
     /\ self.axiality = "uniaxial"
     /\ InRangeNm(self, last.nm)
     /\ last.pol.t \in {"float", "int"})
    => /\ last.out.kind = "return"
       /\ last.pol.deg = 0 => last.out = get_n(file, self, last.nm, PStr("o"))
       /\ last.pol.deg = 90 => last.out = get_n(file, self, last.nm, PStr("e"))

\* C3 (as claimed): on a biaxial crystal and an in-range wavelength a
\* polarization that is neither "a", "b", "c" nor a dict raises the
\* InvalidPolarization error, which names the offending value.
C3_BiaxialInvalidPolarization ==
    (/\ IsGetN
     /\ self.axiality = "biaxial"
     /\ InRangeNm(self, last.nm)
     /\ last.pol.t # "dict"
     /\ last.pol \notin {PStr("a"), PStr("b"), PStr("c")})
    => /\ last.out.kind = "raise"
       /\ last.out.type = "ValueError"
       /\ \E i \in 1..Len(last.out.shown) :
              last.out.shown[i] = [expr |-> "polarization", pol |-> last.pol]

\* C4 (as claimed): the axiality resolver maps every recognized
\* crystal-system string, in any letter case, to its axiality and fails with
\* the UnknownCrystalSystem error on any other string.
C4_ResolverTotal ==
    last.op = "get_axiality" =>
        IF SpecAxiality(last.system) = "unknown"
        THEN /\ last.out.kind = "raise"
             /\ last.out.type = "ValueError"
             /\ last.out.text = "Unknown crystal system: "
        ELSE last.out = RetStr(SpecAxiality(last.system))

\* C5: on an isotropic descriptor and an in-range wavelength, two
\* consecutive get_n calls that differ at most in the polarization both
\* return the same index, the square root of the "iso" vector's n^2.
C5_IsotropicIgnoresPolarization ==
    [][(/\ IsGetN
        /\ last'.op = "get_n"
        /\ self.axiality = "isotropic"
        /\ self' = self
        /\ last'.nm = last.nm
        /\ InRangeNm(self, last.nm))
       => /\ last'.out = last.out
          /\ IsIndexOf(last.out, "iso", last.nm)]_vars

\* an isotropic descriptor gave an index for a numeric polarization
C5_Witness ==
    /\ IsGetN
    /\ self.axiality = "isotropic"
    /\ InRangeNm(self, last.nm)
    /\ last.pol = PFloat(45)
    /\ last.out.kind = "return"
    /\ last.out.type = "float"

\* C7 (as claimed): the OutOfRange error reports the requested wavelength
\* and both bounds of the valid range.
C7_RangeErrorReportsRequest ==
    (IsGetN /\ ~InRangeNm(self, last.nm))
    => /\ IsRangeError(last.out)
       /\ Shows(last.out, "range_min")
       /\ Shows(last.out, "range_max")
       /\ Shows(last.out, "wavelength_nm") \/ Shows(last.out, "wvl")

\* C8 (as claimed): at an in-range wavelength, a negative n^2 on an axis
\* get_n evaluates makes get_n fail instead of taking the square root, and
\* every index get_n returns is a positive real.
C8_NegativeSquaredIndexFails ==
    (IsGetN /\ InRangeNm(self, last.nm))
    => /\ (\E k \in AxisKeys(self.axiality) :
             AxisSquared(k, last.nm).err = "" /\ AxisSquared(k, last.nm).v < 0)
          => last.out.kind = "raise"
       /\ (last.out.kind = "return" /\ last.out.type \in {"float", "nan"})
          => (last.out.type = "float" /\ last.out.n > 0)

\* C9 (as claimed): constructing a crystal class of the file succeeds, and
\* afterwards the stored axiality is the resolver's answer for the stored
\* crystal system.
C9_AxialityInStep ==
    made.cls \in {c.cls : c \in FileClasses(file)}
    => /\ made.out = RetObject
       /\ self.axiality = SpecAxiality(self.crystal_system)

\* C10 (as claimed): every crystal class of the file has exactly the axis
\* keys of its axiality and vectors of the length its form consumes, and
\* get_n at an in-range wavelength with a principal-axis polarization of
\* the axiality returns the index of that axis.
C10_TablesFitTheForms ==
    /\ \A c \in FileClasses(file) :
         /\ DOMAIN c.sellmeier \ {"range"} = AxisKeys(SpecAxiality(c.crystal_system))
         /\ \A k \in DOMAIN c.sellmeier \ {"range"} :
                Len(c.sellmeier[k]) = FormLen(c.hook)
    /\ (/\ IsGetN
        /\ made.cls \in {c.cls : c \in FileClasses(file)}
        /\ InRangeNm(self, last.nm)
        /\ last.pol.t = "str"
        /\ last.pol.s \in AxisKeys(self.axiality))
       => IsIndexOf(last.out, last.pol.s, last.nm)

============================================================================
